---- MODULE Spec2Model ----
(***************************************************************************)
(* A state-machine model of code_execution_mcp/server.py: the PII          *)
(* tokenization engine, the workspace gateway, the skill store, the        *)
(* execution supervisor and the tool registry, with the                    *)
(* dangerous-construct scanner that the test suite imports.  Text is       *)
(* modelled as a                                                           *)
(* sequence of one-character strings, so that regular-expression matching, *)
(* str.replace, str.startswith, str.lower and the newline translation of   *)
(* Path.read_text are computed character by character as Python does.      *)
(***************************************************************************)
EXTENDS Integers, Sequences, FiniteSets, TLC

VARIABLES
    pii_tokens,     \* _pii_tokens: the process-wide token store (an ordered dict)
    pii_call,       \* the last PII operation: its arguments and what it returned
    pii_earlier,    \* what one earlier tokenize_pii call returned (history)
    ws_fs,          \* the file tree: path -> directory or file with its content
    ws_op,          \* the last workspace operation: its target and its outcome
    ws_hist,        \* history: path -> content last written, and the path last deleted
    sk_fs,          \* the file tree holding SKILLS_DIR: path -> directory or file
    sk_save,        \* the save in progress or last finished, and its response
    sk_saved,       \* history: name -> code and description of its latest save
    ex_proc,        \* the host process: SIGALRM handler, pending alarm, RLIMIT_AS
    ex_req,         \* the execute_code request in progress or last finished
    ex_obs,         \* what was observed of that request and of the host since
    ex_other,       \* the last execute_code request made on a thread that is not main
    cat_file,       \* CATALOG_FILE: absent, or what it holds
    cat_cache,      \* _catalog_cache
    cat_call,       \* the last catalog operation: its arguments and what it returned
    cat_first,      \* history: what get_catalog first returned and first loaded
    sc_call         \* the last scan: the code scanned and the warnings returned

pii_vars == <<pii_tokens, pii_call, pii_earlier>>
ws_vars == <<ws_fs, ws_op, ws_hist>>
sk_vars == <<sk_fs, sk_save, sk_saved>>
ex_vars == <<ex_proc, ex_req, ex_obs, ex_other>>
cat_vars == <<cat_file, cat_cache, cat_call, cat_first>>
vars == <<pii_tokens, pii_call, pii_earlier, ws_fs, ws_op, ws_hist, sk_fs, sk_save, sk_saved,
          ex_proc, ex_req, ex_obs, ex_other, cat_file, cat_cache, cat_call, cat_first, sc_call>>

(***************************************************************************)
(* Characters and strings                                                  *)
(***************************************************************************)
Lower == {"a","b","c","d","e","f","g","h","i","j","k","l","m",
          "n","o","p","q","r","s","t","u","v","w","x","y","z"}
Upper == {"A","B","C","D","E","F","G","H","I","J","K","L","M",
          "N","O","P","Q","R","S","T","U","V","W","X","Y","Z"}
Digit == {"0","1","2","3","4","5","6","7","8","9"}
Space == {" ", "\t", "\n"}
WordChar == Lower \cup Upper \cup Digit \cup {"_"}

\* The two cases of a letter, as re.IGNORECASE matches a literal letter.
ToUpper ==
    ("a" :> "A" @@ "c" :> "C" @@ "e" :> "E" @@ "i" :> "I" @@ "k" :> "K" @@
     "n" :> "N" @@ "o" :> "O" @@ "p" :> "P" @@ "r" :> "R" @@ "s" :> "S" @@
     "t" :> "T" @@ "y" :> "Y")
BothCases(c) == IF c \in DOMAIN ToUpper THEN {c, ToUpper[c]} ELSE {c}

\* str.startswith
StartsWith(s, prefix) ==
    /\ Len(prefix) <= Len(s)
    /\ SubSeq(s, 1, Len(prefix)) = prefix

\* The substring test `old in s`.
Contains(s, old) ==
    \E i \in 1..(Len(s) - Len(old) + 1) : SubSeq(s, i, i + Len(old) - 1) = old

\* str.replace(old, new): every non-overlapping occurrence, leftmost first.
RECURSIVE ReplaceFrom(_, _, _, _)
ReplaceFrom(s, old, new, pos) ==
    IF pos + Len(old) - 1 > Len(s) THEN SubSeq(s, pos, Len(s))
    ELSE IF SubSeq(s, pos, pos + Len(old) - 1) = old
         THEN new \o ReplaceFrom(s, old, new, pos + Len(old))
         ELSE <<s[pos]>> \o ReplaceFrom(s, old, new, pos + 1)

Replace(s, old, new) == ReplaceFrom(s, old, new, 1)

(***************************************************************************)
(* Regular expressions.  A pattern is a sequence of alternatives tried in  *)
(* order; an alternative is a sequence of items; an item is a character    *)
(* class with a greedy repetition {min,max} (max = 0: unbounded), a word   *)
(* boundary \b, or the end anchor $.  Matching backtracks as re does:      *)
(* longest repetition first.                                               *)
(***************************************************************************)
Cls(c, lo, hi) == [kind |-> "cls", cls |-> c, min |-> lo, max |-> hi]
Lit(c) == Cls(BothCases(c), 1, 1)
WB == [kind |-> "wb", cls |-> {}, min |-> 0, max |-> 0]
EOS == [kind |-> "eos", cls |-> {}, min |-> 0, max |-> 0]

IsWordAt(s, i) == i >= 1 /\ i <= Len(s) /\ s[i] \in WordChar

\* \b holds between position pos-1 and pos.
IsBoundary(s, pos) == IsWordAt(s, pos - 1) # IsWordAt(s, pos)

\* $ holds at the end of the text and before a final newline.
IsEnd(s, pos) == pos = Len(s) + 1 \/ (pos = Len(s) /\ s[pos] = "\n")

RECURSIVE RunLen(_, _, _, _)
RunLen(s, pos, cls, cap) ==
    IF cap = 0 \/ pos > Len(s) THEN 0
    ELSE IF s[pos] \notin cls THEN 0
    ELSE 1 + RunLen(s, pos + 1, cls, cap - 1)

\* The position after the match of items[k..] at pos, or 0 when none matches.
RECURSIVE MatchItems(_, _, _, _)
RECURSIVE TryCounts(_, _, _, _, _)
MatchItems(items, k, s, pos) ==
    IF k > Len(items) THEN pos
    ELSE IF items[k].kind = "wb"
         THEN IF IsBoundary(s, pos) THEN MatchItems(items, k + 1, s, pos) ELSE 0
    ELSE IF items[k].kind = "eos"
         THEN IF IsEnd(s, pos) THEN MatchItems(items, k + 1, s, pos) ELSE 0
    ELSE LET cap == IF items[k].max = 0 THEN Len(s) ELSE items[k].max
         IN  TryCounts(items, k, s, pos, RunLen(s, pos, items[k].cls, cap))

TryCounts(items, k, s, pos, n) ==
    IF n < items[k].min THEN 0
    ELSE LET e == MatchItems(items, k + 1, s, pos + n)
         IN  IF e # 0 THEN e ELSE TryCounts(items, k, s, pos, n - 1)

RECURSIVE MatchAlts(_, _, _, _)
MatchAlts(pattern, a, s, pos) ==
    IF a > Len(pattern) THEN 0
    ELSE LET e == MatchItems(pattern[a], 1, s, pos)
         IN  IF e # 0 THEN e ELSE MatchAlts(pattern, a + 1, s, pos)

\* re.match(pattern, s): a match at the start of s.
ReMatch(pattern, s) == MatchAlts(pattern, 1, s, 1) # 0

\* [m.group() for m in re.finditer(pattern, s)]: the non-overlapping matches,
\* leftmost first.
RECURSIVE FindIter(_, _, _)
FindIter(pattern, s, pos) ==
    IF pos > Len(s) THEN <<>>
    ELSE LET e == MatchAlts(pattern, 1, s, pos)
         IN  IF e = 0 THEN FindIter(pattern, s, pos + 1)
             ELSE <<SubSeq(s, pos, e - 1)>>
                  \o FindIter(pattern, s, IF e = pos THEN pos + 1 ELSE e)

(***************************************************************************)
(* Python dicts keep insertion order: a dict is a sequence of <<key,       *)
(* value>> pairs with distinct keys.                                       *)
(***************************************************************************)
DictKeys(d) == {d[i][1] : i \in DOMAIN d}
DictItems(d) == {d[i] : i \in DOMAIN d}
DictHas(d, k) == \E i \in DOMAIN d : d[i][1] = k
DictGet(d, k) == d[CHOOSE i \in DOMAIN d : d[i][1] = k][2]

\* d[k] = v: an existing key keeps its place and takes the new value.
DictSet(d, k, v) ==
    IF DictHas(d, k)
    THEN [i \in DOMAIN d |-> IF d[i][1] = k THEN <<k, v>> ELSE d[i]]
    ELSE Append(d, <<k, v>>)

\* d.update(e)
RECURSIVE DictUpdateFrom(_, _, _)
DictUpdateFrom(d, e, i) ==
    IF i > Len(e) THEN d
    ELSE DictUpdateFrom(DictSet(d, e[i][1], e[i][2]), e, i + 1)

\* An assignment in the place of the update: d takes the pairs of e alone.
DictReplaced(d, e) == e

DictUpdate(d, e) == DictUpdateFrom(d, e, 1)

(***************************************************************************)
(* PII patterns (PII_PATTERNS), matched with re.IGNORECASE                 *)
(***************************************************************************)
Alnum == Lower \cup Upper \cup Digit
PhoneSep == {"-", "."} \cup Space

\* \b[A-Za-z0-9._%+-]+@[A-Za-z0-9.-]+\.[A-Z|a-z]{2,}\b
EmailPattern ==
    << <<WB, Cls(Alnum \cup {".", "_", "%", "+", "-"}, 1, 0), Cls({"@"}, 1, 1),
         Cls(Alnum \cup {".", "-"}, 1, 0), Cls({"."}, 1, 1),
         Cls(Upper \cup Lower \cup {"|"}, 2, 0), WB>> >>

\* \(?[0-9]{3}\)?[-.\s]?[0-9]{3}[-.\s]?[0-9]{4}\b
PhoneNumber ==
    <<Cls({"("}, 0, 1), Cls(Digit, 3, 3), Cls({")"}, 0, 1), Cls(PhoneSep, 0, 1),
      Cls(Digit, 3, 3), Cls(PhoneSep, 0, 1), Cls(Digit, 4, 4), WB>>

\* \b(?:\+?1[-.\s]?)?<PhoneNumber>: the optional group is tried first.
PhonePattern ==
    << <<WB, Cls({"+"}, 0, 1), Cls({"1"}, 1, 1), Cls(PhoneSep, 0, 1)>> \o PhoneNumber,
       <<WB>> \o PhoneNumber >>

\* \b\d{3}-\d{2}-\d{4}\b
SsnPattern ==
    << <<WB, Cls(Digit, 3, 3), Cls({"-"}, 1, 1), Cls(Digit, 2, 2),
         Cls({"-"}, 1, 1), Cls(Digit, 4, 4), WB>> >>

\* \b(?:\d{4}[-\s]?){3}\d{4}\b
CardGroup == <<Cls(Digit, 4, 4), Cls({"-"} \cup Space, 0, 1)>>
CreditCardPattern ==
    << <<WB>> \o CardGroup \o CardGroup \o CardGroup \o <<Cls(Digit, 4, 4), WB>> >>

\* \b(?:\d{1,3}\.){3}\d{1,3}\b
IpGroup == <<Cls(Digit, 1, 3), Cls({"."}, 1, 1)>>
IpAddressPattern ==
    << <<WB>> \o IpGroup \o IpGroup \o IpGroup \o <<Cls(Digit, 1, 3), WB>> >>

\* \b(?:api[_-]?key|token|secret)[=:\s]+[A-Za-z0-9_-]{20,}\b
ApiKeyValue ==
    <<Cls({"=", ":"} \cup Space, 1, 0), Cls(Alnum \cup {"_", "-"}, 20, 0), WB>>
ApiKeyPattern ==
    << <<WB, Lit("a"), Lit("p"), Lit("i"), Cls({"_", "-"}, 0, 1),
         Lit("k"), Lit("e"), Lit("y")>> \o ApiKeyValue,
       <<WB, Lit("t"), Lit("o"), Lit("k"), Lit("e"), Lit("n")>> \o ApiKeyValue,
       <<WB, Lit("s"), Lit("e"), Lit("c"), Lit("r"), Lit("e"), Lit("t")>> \o ApiKeyValue >>

\* The categories in the dict's order, each with pii_type.upper() and its pattern.
PII_PATTERNS ==
    << [upper |-> <<"E","M","A","I","L">>, pattern |-> EmailPattern],
       [upper |-> <<"P","H","O","N","E">>, pattern |-> PhonePattern],
       [upper |-> <<"S","S","N">>, pattern |-> SsnPattern],
       [upper |-> <<"C","R","E","D","I","T","_","C","A","R","D">>,
        pattern |-> CreditCardPattern],
       [upper |-> <<"I","P","_","A","D","D","R","E","S","S">>,
        pattern |-> IpAddressPattern],
       [upper |-> <<"A","P","I","_","K","E","Y">>, pattern |-> ApiKeyPattern] >>

(***************************************************************************)
(* hashlib.md5(original.encode()).hexdigest()[:8], tabulated for every     *)
(* substring the patterns match in the texts of this model.  The first two *)
(* entries are a real collision of the truncated digest.                   *)
(***************************************************************************)
Md5Hex8Table ==
   (<<"m","i","q","@","b",".","c","o">> :> <<"8","f","b","c","3","d","d","5">> @@
    <<"b","k","h","w","@","b",".","c","o">> :> <<"8","f","b","c","3","d","d","5">> @@
    <<"a",".","m","i","q","@","b",".","c","o">> :> <<"3","b","4","7","e","e","4","d">> @@
    <<"1",".","2",".","3",".","4">> :> <<"6","4","6","5","e","c","7","4">> @@
    <<"1","0",".","2","0",".","3","0",".","4","0">> :> <<"a","1","7","9","d","8","5","2">> @@
    <<"1","2","3","-","4","5","-","6","7","8","9">> :> <<"1","e","8","7","4","8","9","a">> @@
    <<"5","5","5","-","1","2","3","-","4","5","6","7">> :> <<"c","a","7","1","d","e","0","5">>)

\* A digest outside the table is not known to the model.
Md5Hex8(original) ==
    IF original \in DOMAIN Md5Hex8Table THEN Md5Hex8Table[original]
    ELSE <<"?","?","?","?","?","?","?","?">>

\* f"[{pii_type.upper()}_{digest}]"
TokenId(upper, original) == <<"[">> \o upper \o <<"_">> \o Md5Hex8(original) \o <<"]">>

(***************************************************************************)
(* tokenize_pii and detokenize_pii                                         *)
(***************************************************************************)
\* The inner loop: for each match of the category, in finditer's order.  The
\* matches were found in the text as it was when the category's loop began.
\* `matched` records every match.group() with its category (history only).
RECURSIVE ReplaceMatches(_, _, _, _)
ReplaceMatches(st, upper, matches, i) ==
    IF i > Len(matches) THEN st
    ELSE LET original == matches[i]
             token_id == TokenId(upper, original)
         IN  ReplaceMatches(
                 [sanitized |-> Replace(st.sanitized, original, token_id),
                  tokens |-> DictSet(st.tokens, token_id, original),
                  matched |-> st.matched \cup {<<upper, original>>}],
                 upper, matches, i + 1)

\* The outer loop over PII_PATTERNS.items().
RECURSIVE TokenizeFrom(_, _)
TokenizeFrom(st, k) ==
    IF k > Len(PII_PATTERNS) THEN st
    ELSE TokenizeFrom(
             ReplaceMatches(st, PII_PATTERNS[k].upper,
                            FindIter(PII_PATTERNS[k].pattern, st.sanitized, 1), 1),
             k + 1)

TokenizeRun(text) == TokenizeFrom([sanitized |-> text, tokens |-> <<>>, matched |-> {}], 1)

\* What tokenize_pii(text) returns: (sanitized, tokens).
tokenize_pii(text) ==
    LET st == TokenizeRun(text)
    IN  [sanitized |-> st.sanitized, tokens |-> st.tokens]

\* detokenize_pii(text, tokens): each token replaced in the dict's order.
RECURSIVE DetokenizeFrom(_, _, _)
DetokenizeFrom(result, tokens, i) ==
    IF i > Len(tokens) THEN result
    ELSE DetokenizeFrom(Replace(result, tokens[i][1], tokens[i][2]), tokens, i + 1)

detokenize_pii(text, tokens) == DetokenizeFrom(text, tokens, 1)

(***************************************************************************)
(* sanitize_pii's report                                                   *)
(***************************************************************************)
\* t.split('_')[0]: the text before the first underscore.
RECURSIVE SplitFirst(_, _, _)
SplitFirst(s, sep, pos) ==
    IF pos > Len(s) THEN s
    ELSE IF s[pos] = sep THEN SubSeq(s, 1, pos - 1)
    ELSE SplitFirst(s, sep, pos + 1)

\* s.strip(c): the leading and trailing occurrences of c removed.
RECURSIVE LStrip(_, _)
LStrip(s, c) == IF Len(s) > 0 /\ s[1] = c THEN LStrip(Tail(s), c) ELSE s
RECURSIVE RStrip(_, _)
RStrip(s, c) ==
    IF Len(s) > 0 /\ s[Len(s)] = c THEN RStrip(SubSeq(s, 1, Len(s) - 1), c) ELSE s
Strip(s, c) == RStrip(LStrip(s, c), c)

\* set(t.split('_')[0].strip('[') for t in tokens.keys())
PiiTypes(tokens) == {Strip(SplitFirst(k, "_", 1), "[") : k \in DictKeys(tokens)}

(***************************************************************************)
(* The texts the PII operations are called with: up to MaxFrags fragments  *)
(* joined by single spaces, at most MaxTextLen characters long.            *)
(***************************************************************************)
MaxFrags == 2
MaxTextLen == 25

EmailMiq == <<"m","i","q","@","b",".","c","o">>
EmailBkhw == <<"b","k","h","w","@","b",".","c","o">>
EmailAMiq == <<"a",".","m","i","q","@","b",".","c","o">>
SsnText == <<"1","2","3","-","4","5","-","6","7","8","9">>
\* Text shaped like a token: the token of EmailMiq, as a sanitized text quotes it.
TokenText == <<"[","E","M","A","I","L","_","8","f","b","c","3","d","d","5","]">>

IpText == <<"1","0",".","2","0",".","3","0",".","4","0">>
\* Text no pattern matches: the word "email" is no address.
PartialText ==
    <<"T","h","e"," ","w","o","r","d"," ","'","e","m","a","i","l","'"," ","i","s"," ","o","k">>

Fragments == {EmailMiq, EmailBkhw, EmailAMiq, TokenText, IpText, PartialText}

RECURSIVE JoinFrom(_, _)
JoinFrom(fs, i) ==
    IF i > Len(fs) THEN <<>>
    ELSE IF i = Len(fs) THEN fs[i]
    ELSE fs[i] \o <<" ">> \o JoinFrom(fs, i + 1)

Texts ==
    {t \in {JoinFrom(fs, 1) : fs \in UNION {[1..n -> Fragments] : n \in 0..MaxFrags}} :
        Len(t) <= MaxTextLen}

\* tokenize_pii on every text of the model, and the substrings it matched.
TokenizeTable == [t \in Texts |-> tokenize_pii(t)]
MatchedTable == [t \in Texts |-> TokenizeRun(t).matched]

(***************************************************************************)
(* PII operations                                                          *)
(***************************************************************************)
NoCall ==
    [op |-> "none", text |-> <<>>, out |-> <<>>, tokens |-> <<>>,
     found |-> 0, types |-> {}]
NoEarlier == [sanitized |-> <<>>, tokens |-> <<>>]

PiiStart ==
    /\ pii_tokens = <<>>
    /\ pii_call = NoCall
    /\ pii_earlier = NoEarlier

\* tokenize_pii(text), as sandboxed code or sanitize_pii calls it: the store takes
\* every pair of the returned map (_pii_tokens.update(tokens)).
TokenizeCall(op, text, found, types) ==
    LET r == TokenizeTable[text]
    IN  /\ pii_tokens' = DictUpdate(pii_tokens, r.tokens)
        /\ pii_call' = [op |-> op, text |-> text, out |-> r.sanitized,
                        tokens |-> r.tokens, found |-> found, types |-> types]
        /\ pii_earlier' \in (IF pii_earlier = NoEarlier THEN {NoEarlier, r}
                                                        ELSE {pii_earlier})
        /\ UNCHANGED <<ws_vars, sk_vars, ex_vars, cat_vars, sc_call>>

TokenizePii ==
    \E text \in Texts : TokenizeCall("tokenize_pii", text, 0, {})

\* The sanitize_pii tool.
SanitizePii ==
    \E text \in Texts :
        LET tokens == TokenizeTable[text].tokens
        IN  TokenizeCall("sanitize_pii", text, Len(tokens), PiiTypes(tokens))

\* detokenize_pii(text, tokens) with the caller's own map, on what an earlier
\* tokenize call returned.
DetokenizePii ==
    \E r \in {pii_earlier, [sanitized |-> pii_call.out, tokens |-> pii_call.tokens]} :
        /\ pii_call.op \in {"tokenize_pii", "sanitize_pii"}
        /\ pii_call' = [op |-> "detokenize_pii", text |-> r.sanitized,
                        out |-> detokenize_pii(r.sanitized, r.tokens),
                        tokens |-> r.tokens, found |-> 0, types |-> {}]
        /\ UNCHANGED <<pii_tokens, pii_earlier, ws_vars, sk_vars, ex_vars, cat_vars, sc_call>>

\* The restore_pii tool: detokenize_pii(text) with the shared store.
RestorePii ==
    \E text \in {pii_earlier.sanitized, pii_call.out} :
        /\ pii_call.op \in {"tokenize_pii", "sanitize_pii"}
        /\ pii_call' = [op |-> "restore_pii", text |-> text,
                        out |-> detokenize_pii(text, pii_tokens),
                        tokens |-> pii_tokens, found |-> 0, types |-> {}]
        /\ UNCHANGED <<pii_tokens, pii_earlier, ws_vars, sk_vars, ex_vars, cat_vars, sc_call>>

PiiNext == TokenizePii \/ SanitizePii \/ DetokenizePii \/ RestorePii


(***************************************************************************)
(* Workspace gateway.  A path is a sequence of components, each a string   *)
(* of characters; <<>> is "/".  The tree holds no symbolic links, so       *)
(* Path.resolve() is the lexical normalisation.                            *)
(***************************************************************************)
DotDot == <<".", ".">>
Dot == <<".">>
NameA == <<"a">>
NameWs == <<"w", "s">>
NameWs2 == <<"w", "s", "2">>

\* WORKSPACE_DIR, and a sibling directory whose name begins with the root's name.
WORKSPACE_DIR == <<NameWs>>
SiblingDir == <<NameWs2>>

\* str(path)
RECURSIVE PathStr(_)
PathStr(path) ==
    IF path = <<>> THEN <<"/">>
    ELSE IF Len(path) = 1 THEN <<"/">> \o path[1]
    ELSE PathStr(SubSeq(path, 1, Len(path) - 1)) \o <<"/">> \o path[Len(path)]

\* workspace / filename: an absolute filename replaces the workspace.
JoinPath(workspace, filename) ==
    IF filename.abs THEN filename.parts ELSE workspace \o filename.parts

\* Path.resolve(): "." is dropped, ".." removes the component before it and
\* stays at "/" when there is none.
RECURSIVE ResolveFrom(_, _, _)
ResolveFrom(done, parts, i) ==
    IF i > Len(parts) THEN done
    ELSE IF parts[i] = Dot THEN ResolveFrom(done, parts, i + 1)
    ELSE IF parts[i] = DotDot
         THEN ResolveFrom(IF done = <<>> THEN <<>> ELSE SubSeq(done, 1, Len(done) - 1),
                          parts, i + 1)
    ELSE ResolveFrom(Append(done, parts[i]), parts, i + 1)

Resolve(path) == ResolveFrom(<<>>, path, 1)

\* The containment check of every _safe_* function:
\* str(path).startswith(str(workspace)).
PathAllowed(workspace, path) == StartsWith(PathStr(path), PathStr(workspace))

\* path is the workspace root or a descendant of it.
IsRootOrDescendant(workspace, path) ==
    /\ Len(path) >= Len(workspace)
    /\ SubSeq(path, 1, Len(workspace)) = workspace

\* Path.read_text(): the file is opened with universal newlines, so "\r\n"
\* and a lone "\r" are read as "\n".  Path.write_text writes "\n" as it is.
RECURSIVE read_text(_)
read_text(content) ==
    IF content = <<>> THEN <<>>
    ELSE IF Head(content) = "\r"
         THEN <<"\n">> \o read_text(IF Len(content) > 1 /\ content[2] = "\n"
                                     THEN SubSeq(content, 3, Len(content))
                                     ELSE Tail(content))
    ELSE <<Head(content)>> \o read_text(Tail(content))

DirNode == [type |-> "dir", content |-> <<>>]
FileNode(content) == [type |-> "file", content |-> content]

PathExists(fs, path) == path \in DOMAIN fs
PathIsDir(fs, path) == path \in DOMAIN fs /\ fs[path].type = "dir"
PathIsFile(fs, path) == path \in DOMAIN fs /\ fs[path].type = "file"
Prefixes(path) == {SubSeq(path, 1, n) : n \in 0..Len(path)}
IsUnder(path, dir) == Len(path) > Len(dir) /\ SubSeq(path, 1, Len(dir)) = dir

\* What an operation returns: the tree after it, how it ended ("ok" or the
\* exception raised) and the value returned.
Outcome(fs, how, value) == [fs |-> fs, outcome |-> how, value |-> value]

\* path.parent.mkdir(parents=True, exist_ok=True), then path.write_text(content)
WriteText(fs, path, content) ==
    LET parent == SubSeq(path, 1, Len(path) - 1)
        made == [q \in DOMAIN fs \cup Prefixes(parent) |->
                    IF q \in DOMAIN fs THEN fs[q] ELSE DirNode]
    IN  IF path = <<>> THEN Outcome(fs, "IsADirectoryError", "")
        ELSE IF PathIsFile(fs, parent) THEN Outcome(fs, "FileExistsError", "")
        ELSE IF \E q \in Prefixes(parent) : PathIsFile(fs, q)
             THEN Outcome(fs, "NotADirectoryError", "")
        ELSE IF PathIsDir(fs, path) THEN Outcome(fs, "IsADirectoryError", "")
        ELSE Outcome([q \in DOMAIN made \cup {path} |->
                         IF q = path THEN FileNode(content) ELSE made[q]],
                     "ok", "")

_safe_read_file(fs, workspace, filename) ==
    LET path == Resolve(JoinPath(workspace, filename))
    IN  IF ~PathAllowed(workspace, path) THEN Outcome(fs, "PermissionError", "")
        ELSE IF PathExists(fs, path)
             THEN IF PathIsDir(fs, path) THEN Outcome(fs, "IsADirectoryError", "")
                  ELSE Outcome(fs, "ok", read_text(fs[path].content))
        ELSE Outcome(fs, "FileNotFoundError", "")

\* A write that makes the directories of the path before it checks the path.
_safe_write_file_mkdir_first(fs, workspace, filename, content) ==
    LET path == Resolve(JoinPath(workspace, filename))
        parent == SubSeq(path, 1, Len(path) - 1)
        made == [q \in DOMAIN fs \cup Prefixes(parent) |->
                    IF q \in DOMAIN fs THEN fs[q] ELSE DirNode]
    IN  IF ~PathAllowed(workspace, path) THEN Outcome(made, "PermissionError", "")
        ELSE WriteText(fs, path, content)

_safe_write_file(fs, workspace, filename, content) ==
    LET path == Resolve(JoinPath(workspace, filename))
    IN  IF ~PathAllowed(workspace, path) THEN Outcome(fs, "PermissionError", "")
        ELSE WriteText(fs, path, content)

\* [str(f.relative_to(workspace)) for f in path.rglob('*') if f.is_file()]:
\* relative_to raises ValueError for a file that is not under the workspace.
_safe_list_files(fs, workspace, subpath) ==
    LET path == Resolve(JoinPath(workspace, subpath))
        found == {f \in DOMAIN fs : IsUnder(f, path) /\ PathIsFile(fs, f)}
    IN  IF ~PathAllowed(workspace, path) THEN Outcome(fs, "PermissionError", {})
        ELSE IF PathIsDir(fs, path)
             THEN IF \E f \in found : ~IsRootOrDescendant(workspace, f)
                  THEN Outcome(fs, "ValueError", {})
                  ELSE Outcome(fs, "ok",
                               {SubSeq(f, Len(workspace) + 1, Len(f)) : f \in found})
        ELSE Outcome(fs, "ok", {})

_safe_delete_file(fs, workspace, filename) ==
    LET path == Resolve(JoinPath(workspace, filename))
    IN  IF ~PathAllowed(workspace, path) THEN Outcome(fs, "PermissionError", "")
        ELSE IF PathExists(fs, path)
             THEN IF PathIsDir(fs, path) THEN Outcome(fs, "IsADirectoryError", "")
                  ELSE Outcome([q \in DOMAIN fs \ {path} |-> fs[q]], "ok", "")
        ELSE Outcome(fs, "FileNotFoundError", "")

(***************************************************************************)
(* The file names the workspace operations are called with.  Inside the    *)
(* workspace: a, d, d/a, ... nested up to MaxNest directories deep.        *)
(* Leaving it: up to MaxUp ".." components, then nothing, a file, the      *)
(* sibling directory's file, or the way back into the workspace.           *)
(***************************************************************************)
MaxNest == 1
MaxUp == 2

NameD == <<"d">>
Contents == {<<"x">>, <<"y", "\r">>}

RECURSIVE Repeat(_, _)
Repeat(part, n) == IF n = 0 THEN <<>> ELSE <<part>> \o Repeat(part, n - 1)

Relative(parts) == [abs |-> FALSE, parts |-> parts]
Absolute(parts) == [abs |-> TRUE, parts |-> parts]

InsideNames ==
    {Relative(Repeat(NameD, k) \o <<NameA>>) : k \in 0..MaxNest}
    \cup {Relative(Repeat(NameD, k)) : k \in 1..MaxNest}
    \cup {Relative(<<Dot>>), Relative(<<NameD, DotDot, NameA>>),
          Absolute(WORKSPACE_DIR), Absolute(WORKSPACE_DIR \o <<NameA>>)}

EscapingNames ==
    {Relative(Repeat(DotDot, k) \o tail) :
        k \in 1..MaxUp,
        tail \in {<<>>, <<NameA>>, <<NameD, NameA>>, SiblingDir \o <<NameA>>,
                  WORKSPACE_DIR \o <<NameA>>}}
    \cup {Absolute(<<>>), Absolute(<<NameA>>), Absolute(SiblingDir \o <<NameA>>)}

FileNames == InsideNames \cup EscapingNames

\* The tree at start: the workspace, and a sibling directory with a file in it.
NoWsResponse == [kind |-> "none", success |-> FALSE, error |-> ""]
NoPath == [some |-> FALSE, path |-> <<>>]
SomePath(path) == [some |-> TRUE, path |-> path]

WsStart ==
    /\ ws_fs = (<<>> :> DirNode @@ WORKSPACE_DIR :> DirNode @@
                SiblingDir :> DirNode @@ (SiblingDir \o <<NameA>>) :> FileNode(<<"s">>))
    /\ ws_op = [op |-> "none", tool |-> FALSE, target |-> <<>>, outcome |-> "ok",
                value |-> "", content |-> <<>>, response |-> NoWsResponse]
    /\ ws_hist = [written |-> <<>>, deleted |-> NoPath]

\* The except clause of the workspace tools: json.dumps({'success': False,
\* 'error': str(e)}); every exception of the _safe_* functions is an Exception.
ToolResponse(r) ==
    IF r.outcome = "ok" THEN [kind |-> "json", success |-> TRUE, error |-> ""]
    ELSE [kind |-> "json", success |-> FALSE, error |-> r.outcome]

\* The history after an operation on target.
Recorded(op, target, content, r) ==
    IF r.outcome # "ok" THEN ws_hist
    ELSE CASE op = "write" ->
                [written |-> (target :> content) @@ ws_hist.written,
                 deleted |-> IF ws_hist.deleted = SomePath(target) THEN NoPath
                             ELSE ws_hist.deleted]
           [] op = "delete" ->
                [written |-> [q \in DOMAIN ws_hist.written \ {target} |->
                                 ws_hist.written[q]],
                 deleted |-> SomePath(target)]
           [] OTHER -> ws_hist

WsDone(op, tool, filename, content, r) ==
    LET target == Resolve(JoinPath(WORKSPACE_DIR, filename))
    IN  /\ ws_fs' = r.fs
        /\ ws_op' = [op |-> op, tool |-> tool, target |-> target,
                     outcome |-> r.outcome, value |-> r.value, content |-> content,
                     response |-> IF tool THEN ToolResponse(r) ELSE NoWsResponse]
        /\ ws_hist' = Recorded(op, target, content, r)
        /\ UNCHANGED <<pii_vars, sk_vars, ex_vars, cat_vars, sc_call>>

\* read_file(f), as sandboxed code calls it.
ReadFile ==
    \E f \in FileNames :
        WsDone("read", FALSE, f, <<>>, _safe_read_file(ws_fs, WORKSPACE_DIR, f))

WriteFile ==
    \E f \in FileNames, c \in Contents :
        WsDone("write", FALSE, f, c, _safe_write_file(ws_fs, WORKSPACE_DIR, f, c))

ListFiles ==
    \E f \in FileNames :
        WsDone("list", FALSE, f, <<>>, _safe_list_files(ws_fs, WORKSPACE_DIR, f))

DeleteFile ==
    \E f \in FileNames :
        WsDone("delete", FALSE, f, <<>>, _safe_delete_file(ws_fs, WORKSPACE_DIR, f))

\* The tools read_workspace_file, write_workspace_file and list_workspace_files.
ReadWorkspaceFile ==
    \E f \in FileNames :
        WsDone("read", TRUE, f, <<>>, _safe_read_file(ws_fs, WORKSPACE_DIR, f))

WriteWorkspaceFile ==
    \E f \in FileNames, c \in Contents :
        WsDone("write", TRUE, f, c, _safe_write_file(ws_fs, WORKSPACE_DIR, f, c))

ListWorkspaceFiles ==
    \E f \in FileNames :
        WsDone("list", TRUE, f, <<>>, _safe_list_files(ws_fs, WORKSPACE_DIR, f))

WsNext ==
    \/ ReadFile \/ WriteFile \/ ListFiles \/ DeleteFile
    \/ ReadWorkspaceFile \/ WriteWorkspaceFile \/ ListWorkspaceFiles

(***************************************************************************)
(* Skill store.  SKILLS_DIR / f"{name}.py" parses the name as a path: the  *)
(* operating system follows its ".." components when the file is opened.   *)
(***************************************************************************)
SKILLS_DIR == << <<"s", "k">> >>
ExtPy == <<".", "p", "y">>
ExtJson == <<".", "j", "s", "o", "n">>

\* The components of a path string: split at "/", empty components dropped.
RECURSIVE SplitPath(_, _, _)
SplitPath(s, pos, part) ==
    IF pos > Len(s) THEN (IF part = <<>> THEN <<>> ELSE <<part>>)
    ELSE IF s[pos] = "/"
         THEN (IF part = <<>> THEN <<>> ELSE <<part>>) \o SplitPath(s, pos + 1, <<>>)
    ELSE SplitPath(s, pos + 1, Append(part, s[pos]))

ParsePath(s) == [abs |-> Len(s) > 0 /\ s[1] = "/", parts |-> SplitPath(s, 1, <<>>)]

\* SKILLS_DIR / f"{name}{ext}", as the operating system opens it.
SkillFile(name, ext) == Resolve(JoinPath(SKILLS_DIR, ParsePath(name \o ext)))

\* ^[a-zA-Z_][a-zA-Z0-9_]*$
SkillNamePattern ==
    << <<Cls(Lower \cup Upper \cup {"_"}, 1, 1), Cls(Alnum \cup {"_"}, 0, 0), EOS>> >>

CodeX1 == <<"x", "=", "1">>
CodeX2CrLf == <<"x", "=", "2", "\r", "\n">>

\* hashlib.md5(code.encode()).hexdigest() of the codes of this model.
Md5Hex(code) ==
    CASE code = CodeX1 -> "a255512f9d61a6777bd5a304235bd26d"
      [] code = CodeX2CrLf -> "512a230c257d7e1d6dc9116177d88f2c"
      [] OTHER -> "unknown"

\* What a file of the skills directory holds: text, or the text json.dumps
\* made of a value.
Text(chars) == [kind |-> "text", v |-> chars]
JsonText(value) == [kind |-> "json", v |-> value]

\* Path.write_text(content): the file is created or replaced; its directory
\* must exist.
SkillWriteText(fs, path, content) ==
    LET parent == SubSeq(path, 1, Len(path) - 1)
    IN  IF path = <<>> \/ PathIsDir(fs, path) THEN Outcome(fs, "IsADirectoryError", "")
        ELSE IF ~PathIsDir(fs, parent) THEN Outcome(fs, "FileNotFoundError", "")
        ELSE Outcome([q \in DOMAIN fs \cup {path} |->
                         IF q = path THEN FileNode(content) ELSE fs[q]],
                     "ok", "")

\* The metadata record of save_skill_internal (the creation time is left out).
SkillMetadata(name, code, description) ==
    [name |-> name, description |-> description, code_hash |-> Md5Hex(code)]

NoMetadata == [name |-> <<>>, description |-> "", code_hash |-> ""]
NoSkillResult == [code |-> <<>>, metadata |-> NoMetadata, skills |-> <<>>, count |-> 0]

SkillNames == {<<"o", "k">>, <<"b", "-", "d">>, <<".", "/", "o", "k">>,
               <<".", ".", "/", "x">>}
SkillCodes == {CodeX1, CodeX2CrLf}
SkillDescriptions == {"", "doc"}

\* re.match(r'^[a-zA-Z_][a-zA-Z0-9_]*$', name) and the two paths of a name,
\* worked out once for each name of the model.
NameTable ==
    [name \in SkillNames |->
        [valid |-> ReMatch(SkillNamePattern, name),
         skill_path |-> SkillFile(name, ExtPy),
         metadata_path |-> SkillFile(name, ExtJson)]]

\* json.loads(path.read_text()): the value, or the exception.
LoadJson(fs, path) ==
    IF PathIsDir(fs, path) THEN [exc |-> "IsADirectoryError", value |-> NoMetadata]
    ELSE IF fs[path].content.kind = "json"
         THEN [exc |-> "", value |-> fs[path].content.v]
    ELSE [exc |-> "JSONDecodeError", value |-> NoMetadata]

load_skill_internal(fs, name) ==
    LET skill_path == NameTable[name].skill_path
    IN  IF ~PathExists(fs, skill_path) THEN [exc |-> "FileNotFoundError", code |-> <<>>]
        ELSE IF PathIsDir(fs, skill_path) THEN [exc |-> "IsADirectoryError", code |-> <<>>]
        ELSE [exc |-> "", code |-> read_text(fs[skill_path].content.v)]

\* The load_skill tool: only FileNotFoundError is turned into an error response.
load_skill(fs, name) ==
    LET loaded == load_skill_internal(fs, name)
        metadata_path == NameTable[name].metadata_path
        meta == IF PathExists(fs, metadata_path) THEN LoadJson(fs, metadata_path)
                ELSE [exc |-> "", value |-> NoMetadata]
    IN  IF loaded.exc = "FileNotFoundError" THEN [response |-> "error", result |-> NoSkillResult]
        ELSE IF loaded.exc # "" \/ meta.exc # ""
             THEN [response |-> "raised", result |-> NoSkillResult]
        ELSE [response |-> "loaded",
              result |-> [NoSkillResult EXCEPT !.code = loaded.code,
                                               !.metadata = meta.value]]

\* SKILLS_DIR.glob("*.json")
EndsWith(s, suffix) ==
    Len(s) >= Len(suffix) /\ SubSeq(s, Len(s) - Len(suffix) + 1, Len(s)) = suffix

GlobJson(fs) ==
    {f \in DOMAIN fs : /\ Len(f) = Len(SKILLS_DIR) + 1
                       /\ SubSeq(f, 1, Len(SKILLS_DIR)) = SKILLS_DIR
                       /\ EndsWith(f[Len(f)], ExtJson)}

\* The orders a directory can be listed in.
Orderings(S) ==
    {order \in [1..Cardinality(S) -> S] :
        \A i, j \in 1..Cardinality(S) : order[i] = order[j] => i = j}

\* list_skills_internal, for one listing order: a record that does not
\* parse is passed over.
RECURSIVE ListSkillsFrom(_, _, _)
ListSkillsFrom(fs, order, i) ==
    IF i > Len(order) THEN <<>>
    ELSE LET meta == LoadJson(fs, order[i])
         IN  (IF meta.exc = "" THEN <<meta.value>> ELSE <<>>)
                 \o ListSkillsFrom(fs, order, i + 1)

\* A listing that one record that does not parse brings to nothing.
list_skills_unguarded(fs, order) ==
    IF \E i \in 1..Len(order) : LoadJson(fs, order[i]).exc # "" THEN <<>>
    ELSE ListSkillsFrom(fs, order, 1)

list_skills_internal(fs, order) == ListSkillsFrom(fs, order, 1)

IdleSkillOp ==
    [pc |-> "idle", entry |-> "none", name |-> <<>>, code |-> <<>>,
     description |-> "", response |-> "none", wrote |-> FALSE,
     result |-> NoSkillResult]

SkStart ==
    /\ sk_fs = (<<>> :> DirNode @@ SKILLS_DIR :> DirNode)
    /\ sk_save = IdleSkillOp
    /\ sk_saved = <<>>

SkUnchanged == UNCHANGED <<pii_vars, ws_vars, ex_vars, cat_vars, sc_call>>

\* save_skill_internal up to skill_path.write_text(code): the tree and the
\* operation record afterwards.
SaveWriteCode(fs, entry, name, code, description) ==
    LET r == SkillWriteText(fs, NameTable[name].skill_path, Text(code))
    IN  [fs |-> r.fs,
         op |-> IF r.outcome = "ok"
                THEN [IdleSkillOp EXCEPT !.pc = "write_meta", !.entry = entry,
                         !.name = name, !.code = code, !.description = description,
                         !.wrote = TRUE]
                ELSE [IdleSkillOp EXCEPT !.pc = "done", !.entry = entry,
                         !.name = name, !.response = r.outcome]]

\* The save_skill tool: the name is validated, then save_skill_internal runs.
SaveSkillTool ==
    \E name \in SkillNames, code \in SkillCodes, description \in SkillDescriptions :
        /\ sk_save.pc \in {"idle", "done"}
        /\ IF ~NameTable[name].valid
           THEN /\ sk_save' = [IdleSkillOp EXCEPT !.pc = "done", !.entry = "save_skill",
                                  !.name = name, !.response = "error"]
                /\ UNCHANGED sk_fs
           ELSE LET r == SaveWriteCode(sk_fs, "save_skill", name, code, description)
                IN  sk_fs' = r.fs /\ sk_save' = r.op
        /\ UNCHANGED sk_saved
        /\ SkUnchanged

\* save_skill(...) called by sandboxed code: the namespace binds the name to
\* save_skill_internal itself.
SaveSkillSandbox ==
    \E name \in SkillNames, code \in SkillCodes, description \in SkillDescriptions :
        /\ sk_save.pc \in {"idle", "done"}
        /\ LET r == SaveWriteCode(sk_fs, "sandbox", name, code, description)
           IN  sk_fs' = r.fs /\ sk_save' = r.op
        /\ UNCHANGED sk_saved
        /\ SkUnchanged

\* save_skill_internal: metadata_path.write_text(json.dumps(metadata)), return
SaveWriteMeta ==
    /\ sk_save.pc = "write_meta"
    /\ LET r == SkillWriteText(sk_fs, NameTable[sk_save.name].metadata_path,
                               JsonText(SkillMetadata(sk_save.name, sk_save.code,
                                                      sk_save.description)))
           latest == [code |-> sk_save.code, description |-> sk_save.description]
       IN  /\ sk_fs' = r.fs
           /\ sk_save' = [sk_save EXCEPT !.pc = "done",
                             !.code = <<>>, !.description = "", !.wrote = TRUE,
                             !.response = IF r.outcome = "ok" THEN "saved" ELSE r.outcome]
           /\ sk_saved' = IF r.outcome = "ok"
                          THEN [n \in DOMAIN sk_saved \cup {sk_save.name} |->
                                   IF n = sk_save.name THEN latest ELSE sk_saved[n]]
                          ELSE sk_saved
    /\ SkUnchanged

\* The load_skill tool.
LoadSkill ==
    \E name \in SkillNames :
        /\ sk_save.pc \in {"idle", "done"}
        /\ LET r == load_skill(sk_fs, name)
           IN  sk_save' = [IdleSkillOp EXCEPT !.pc = "done", !.entry = "load_skill",
                              !.name = name, !.response = r.response,
                              !.result = r.result]
        /\ UNCHANGED <<sk_fs, sk_saved>>
        /\ SkUnchanged

\* The list_skills tool: {'count': len(skills), 'skills': skills}
ListSkills ==
    \E order \in Orderings(GlobJson(sk_fs)) :
        /\ sk_save.pc \in {"idle", "done"}
        /\ LET skills == list_skills_internal(sk_fs, order)
           IN  sk_save' = [IdleSkillOp EXCEPT !.pc = "done", !.entry = "list_skills",
                              !.response = "listed",
                              !.result = [NoSkillResult EXCEPT !.skills = skills,
                                                               !.count = Len(skills)]]
        /\ UNCHANGED <<sk_fs, sk_saved>>
        /\ SkUnchanged

\* Something outside the program damages a metadata record of the directory;
\* the names stored there no longer count as saved.
CorruptMetadata ==
    \E f \in GlobJson(sk_fs) :
        /\ sk_save.pc \in {"idle", "done"}
        /\ PathIsFile(sk_fs, f)
        /\ sk_fs[f].content.kind = "json"
        /\ sk_fs' = [sk_fs EXCEPT ![f] = FileNode(Text(<<"{">>))]
        /\ sk_save' = [IdleSkillOp EXCEPT !.pc = "done", !.entry = "outside"]
        /\ sk_saved' = [n \in {m \in DOMAIN sk_saved : NameTable[m].metadata_path # f}
                           |-> sk_saved[n]]
        /\ SkUnchanged

SkNext ==
    \/ SaveSkillTool \/ SaveSkillSandbox \/ SaveWriteMeta
    \/ LoadSkill \/ ListSkills \/ CorruptMetadata

(***************************************************************************)
(* Sandbox supervisor: execute_code.  Submitted code is a sequence of       *)
(* statements; a statement may sit in "try: ... except Exception: pass".    *)
(* Memory sizes are counted in MiB.                                         *)
(***************************************************************************)
IntV(n) == [t |-> "int", v |-> n]
StrV(x) == [t |-> "str", v |-> x]
NoneV == [t |-> "None", v |-> "None"]
SetV == [t |-> "set", v |-> "{1, 2}"]
TupleKeyDictV == [t |-> "dict", v |-> "{(1, 2): 3}"]

\* str(value)
Str(value) ==
    CASE value.t = "int" -> (CASE value.v = 1 -> "1" [] value.v = 5 -> "5" [] OTHER -> "n")
      [] OTHER -> value.v

Raised(kind, type, msg) == [kind |-> kind, type |-> type, msg |-> msg]
NoExc == Raised("none", "", "")

\* json.dumps(value, default=str): sets are rendered by str, a dictionary
\* keyed by tuples is refused.
JsonDumps(value) ==
    CASE value.t = "int" -> [exc |-> NoExc, json |-> [j |-> "number", v |-> value.v]]
      [] value.t = "str" -> [exc |-> NoExc, json |-> [j |-> "string", v |-> value.v]]
      [] value.t = "None" -> [exc |-> NoExc, json |-> [j |-> "null", v |-> "null"]]
      [] value.t = "set" -> [exc |-> NoExc, json |-> [j |-> "string", v |-> Str(value)]]
      [] OTHER -> [exc |-> Raised("Exception", "TypeError",
                                   "keys must be str, int, float, bool or None, not tuple"),
                   json |-> [j |-> "null", v |-> "null"]]

\* The names create_safe_builtins binds that this model's code uses.
create_safe_builtins == {"print", "str", "len", "bytes", "Exception", "ValueError"}

\* The reserved names of create_safe_globals that this model's code uses.
ReservedNames == <<"__builtins__", "json", "collections", "read_file", "save_skill",
                   "tokenize_pii">>

RECURSIVE ReservedFrom(_)
ReservedFrom(i) ==
    IF i > Len(ReservedNames) THEN <<>>
    ELSE << <<ReservedNames[i], [t |-> "reserved", v |-> ReservedNames[i]]>> >>
             \o ReservedFrom(i + 1)

\* A namespace in which the caller's variables are merged first, so that the
\* reserved bindings win.
create_safe_globals_merged_first(context_vars) == DictUpdate(context_vars, ReservedFrom(1))

\* create_safe_globals: the reserved bindings, then safe_globals.update(context_vars)
create_safe_globals(context_vars) == DictUpdate(ReservedFrom(1), context_vars)

\* Name lookup of the interpreter: globals, then the __builtins__ dictionary.
Lookup(globals, name) ==
    IF DictHas(globals, name) THEN [exc |-> NoExc, value |-> DictGet(globals, name)]
    ELSE IF DictGet(globals, "__builtins__").t = "reserved" /\ name \in create_safe_builtins
         THEN [exc |-> NoExc, value |-> [t |-> "builtin", v |-> name]]
    ELSE [exc |-> Raised("Exception", "NameError", name), value |-> NoneV]

Stmt(op, arg, guarded) == [op |-> op, arg |-> arg, guarded |-> guarded]

DisallowedCalls == {"open", "eval", "exec", "compile", "__import__", "input"}
DisallowedModules == {"os", "subprocess", "socket"}
\* The modules create_safe_globals binds.
SafeModules == {"json", "re", "math", "statistics", "collections", "datetime"}
ReflectiveAttributes == {"__class__", "__bases__", "__subclasses__", "__globals__"}

\* The submitted codes of this model; "syntax" is text that does not compile.
Programs ==
    [ ok       |-> <<Stmt("print", StrV("a"), FALSE), Stmt("result", IntV(1), FALSE)>>,
      prints   |-> <<Stmt("print", StrV("a"), FALSE), Stmt("print", IntV(1), FALSE)>>,
      import   |-> <<Stmt("import", "os", FALSE), Stmt("result", IntV(1), FALSE)>>,
      importjson |-> <<Stmt("import", "json", FALSE), Stmt("result", IntV(1), FALSE)>>,
      leave    |-> <<Stmt("bind", "g", FALSE), Stmt("setattr", StrV("left"), FALSE)>>,
      readg    |-> <<Stmt("load", "g", FALSE)>>,
      readmarker |-> <<Stmt("loadattr", "marker", FALSE)>>,
      open     |-> <<Stmt("call", "open", FALSE), Stmt("result", IntV(1), FALSE)>>,
      tryopen  |-> <<Stmt("call", "open", TRUE), Stmt("result", IntV(1), FALSE)>>,
      reflect  |-> <<Stmt("getattr", "__class__", FALSE), Stmt("result", StrV("a"), FALSE)>>,
      raise    |-> <<Stmt("print", StrV("a"), FALSE), Stmt("raise", "Exception", FALSE)>>,
      exit     |-> <<Stmt("print", StrV("a"), FALSE), Stmt("raise", "BaseException", FALSE)>>,
      spin     |-> <<Stmt("print", StrV("a"), FALSE), Stmt("spin", "", FALSE)>>,
      tryspin  |-> <<Stmt("spin", "", TRUE), Stmt("result", StrV("a"), FALSE)>>,
      alloc    |-> <<Stmt("alloc", 2, FALSE), Stmt("result", IntV(1), FALSE)>>,
      set      |-> <<Stmt("result", SetV, FALSE)>>,
      badkey   |-> <<Stmt("print", StrV("a"), FALSE), Stmt("result", TupleKeyDictV, FALSE)>>,
      empty    |-> <<>>,
      syntax   |-> <<Stmt("syntax", "", FALSE)>> ]

Compiles(code) == \A i \in 1..Len(code) : code[i].op # "syntax"

MaxTimeout == 2
MaxMemoryMb == 2
\* memory_mb: a number of MiB, or 2**70, which is beyond the range of a C long
\* once multiplied by 1024 * 1024.
MemoryMb(n) == [mb |-> n, c_long |-> TRUE]
TooLarge == [mb |-> 0, c_long |-> FALSE]
\* resource.RLIM_INFINITY
Unlimited == -1

ContextVars == { <<>>, << <<"result", IntV(5)>> >>,
                 << <<"print", IntV(5)>>, <<"read_file", IntV(5)>> >> }
Timeouts == 0..MaxTimeout
MemoryMbs == {MemoryMb(n) : n \in 1..MaxMemoryMb} \cup {TooLarge}

\* The requests made: every code with every timeout; every memory limit with
\* the codes whose outcome depends on it; every context_vars with the codes
\* that print and bind result.
Request(code, context_vars, timeout_seconds, memory_mb) ==
    [code |-> code, context_vars |-> context_vars, timeout_seconds |-> timeout_seconds,
     memory_mb |-> memory_mb]
Requests ==
    {Request(code, <<>>, t, MemoryMb(MaxMemoryMb)) :
        code \in DOMAIN Programs, t \in Timeouts}
    \cup {Request(code, <<>>, t, m) :
        code \in {"ok", "alloc", "spin"}, t \in Timeouts, m \in MemoryMbs}
    \cup {Request(code, c, t, MemoryMb(MaxMemoryMb)) :
        code \in {"ok", "prints", "empty"}, c \in ContextVars, t \in {0, MaxTimeout}}

NoResponse == [kind |-> "none", success |-> FALSE, result |-> [j |-> "null", v |-> "null"],
               error |-> <<>>, traceback |-> FALSE, output |-> <<>>]

IdleRequest ==
    [pc |-> "idle", code |-> "empty", context_vars |-> <<>>, timeout_seconds |-> 0,
     memory_mb |-> MemoryMb(1), globals |-> <<>>, output |-> <<>>, ip |-> 1, exc |-> NoExc,
     old_handler |-> "none", response |-> NoResponse]

NoObs == [printed |-> <<>>, bound |-> [t |-> "unbound", v |-> ""], armed |-> 0,
          expired |-> FALSE, finished |-> FALSE, fault |-> NoExc,
          host_interrupted |-> FALSE]

NoOther == [pc |-> "idle", code |-> "empty", overlaps |-> FALSE, response |-> NoResponse]

ExStart ==
    /\ ex_proc \in [handler : {"SIG_DFL"}, alarm : {0}, rlimit : {Unlimited},
                    alive : {TRUE}, json_marker : {NoneV}]
    /\ ex_req = IdleRequest
    /\ ex_obs = NoObs
    /\ ex_other = NoOther

ExUnchanged == UNCHANGED <<pii_vars, ws_vars, sk_vars, cat_vars, sc_call, ex_other>>

\* def capture_print(*args): output.append(' '.join(str(a) for a in args))
capture_print(output, value) == Append(output, Str(value))

\* The statements of the request's code.
CodeOf(req) == Programs[req.code]

\* execute_code, up to the with statement: the namespace is built and print
\* is rebound to capture_print.
ExecuteCode ==
    \E request \in Requests :
        /\ ex_req.pc \in {"idle", "done"}
        /\ ex_proc.alive
        /\ ex_req' = [IdleRequest EXCEPT
                         !.pc = "enter", !.code = request.code,
                         !.context_vars = request.context_vars,
                         !.timeout_seconds = request.timeout_seconds,
                         !.memory_mb = request.memory_mb,
                         !.globals = DictSet(create_safe_globals(request.context_vars),
                                             "print",
                                             [t |-> "reserved", v |-> "capture_print"])]
        /\ ex_obs' = [NoObs EXCEPT !.host_interrupted = ex_obs.host_interrupted]
        /\ UNCHANGED ex_proc
        /\ ExUnchanged

\* resource.setrlimit(RLIMIT_AS, (limit, limit)): the limit in force afterwards,
\* or the exception.  Raising the hard limit needs a privilege the process
\* may or may not hold (ValueError).
SetRlimit(proc, memory_mb, privileged) ==
    IF ~memory_mb.c_long
    THEN [exc |-> Raised("Exception", "OverflowError",
                         "Python int too large to convert to C long"),
          rlimit |-> proc.rlimit]
    ELSE IF proc.rlimit = Unlimited \/ privileged
         THEN [exc |-> NoExc, rlimit |-> memory_mb.mb]
    ELSE IF memory_mb.mb <= proc.rlimit
         THEN [exc |-> NoExc, rlimit |-> memory_mb.mb]
    ELSE [exc |-> Raised("Exception", "ValueError", "not allowed to raise maximum limit"),
          rlimit |-> proc.rlimit]

\* SafeExecutionContext.__enter__
EnterContext ==
    /\ ex_req.pc = "enter"
    /\ \E privileged \in BOOLEAN :
       LET set == SetRlimit(ex_proc, ex_req.memory_mb, privileged)
           escapes == set.exc.type \notin {"", "ValueError"}
       IN  /\ ex_proc' = [ex_proc EXCEPT !.handler = "timeout_handler",
                                         !.alarm = ex_req.timeout_seconds,
                                         !.rlimit = set.rlimit]
           /\ ex_req' = [ex_req EXCEPT
                            !.old_handler = ex_proc.handler,
                            !.pc = IF escapes THEN "respond" ELSE "compile",
                            !.exc = IF escapes THEN set.exc ELSE NoExc]
           /\ ex_obs' = [ex_obs EXCEPT !.armed = ex_req.timeout_seconds,
                                       !.fault = IF escapes THEN set.exc ELSE NoExc]
    /\ ExUnchanged

\* compile(code, '<sandbox>', 'exec')
Compile ==
    /\ ex_req.pc = "compile"
    /\ LET exc == Raised("Exception", "SyntaxError", "invalid syntax")
       IN  IF Compiles(CodeOf(ex_req))
           THEN /\ ex_req' = [ex_req EXCEPT !.pc = "exec"]
                /\ UNCHANGED ex_obs
           ELSE /\ ex_req' = [ex_req EXCEPT !.pc = "exit", !.exc = exc]
                /\ ex_obs' = [ex_obs EXCEPT !.fault = exc]
    /\ UNCHANGED ex_proc
    /\ ExUnchanged

\* What a statement raises when it is interpreted.  "load" is result = <name>,
\* "setattr" is json.marker = <value>, "loadattr" is result = json.marker; the
\* json module is the one object every namespace binds.
StmtRaises(stmt, globals, rlimit, json_marker) ==
    CASE stmt.op = "import" -> Raised("Exception", "ImportError", "__import__ not found")
      [] stmt.op = "load" -> Lookup(globals, stmt.arg).exc
      [] stmt.op = "loadattr" ->
            IF json_marker = NoneV
            THEN Raised("Exception", "AttributeError",
                        "module 'json' has no attribute 'marker'")
            ELSE NoExc
      [] stmt.op = "call" ->
            IF Lookup(globals, stmt.arg).exc # NoExc THEN Lookup(globals, stmt.arg).exc
            ELSE Raised("Exception", "TypeError", "object is not callable")
      [] stmt.op = "raise" -> Raised(stmt.arg, stmt.arg, "raised")
      [] stmt.op = "alloc" ->
            IF rlimit # Unlimited /\ stmt.arg > rlimit
            THEN Raised("Exception", "MemoryError", "") ELSE NoExc
      [] OTHER -> NoExc

\* exec(...): one statement of the code, or its end.  An endless loop takes
\* no step of its own.
Step ==
    /\ ex_req.pc = "exec"
    /\ IF ex_req.ip > Len(CodeOf(ex_req))
       THEN /\ ex_req' = [ex_req EXCEPT !.pc = "exit"]
            /\ ex_obs' = [ex_obs EXCEPT !.finished = TRUE]
            /\ UNCHANGED ex_proc
       ELSE LET stmt == CodeOf(ex_req)[ex_req.ip]
                exc == StmtRaises(stmt, ex_req.globals, ex_proc.rlimit,
                                  ex_proc.json_marker)
                done == exc = NoExc
                value == CASE stmt.op = "result" -> stmt.arg
                           [] stmt.op = "load" -> Lookup(ex_req.globals, stmt.arg).value
                           [] stmt.op = "loadattr" -> ex_proc.json_marker
                           [] OTHER -> NoneV
                binds == done /\ stmt.op \in {"result", "load", "loadattr"}
            IN  /\ stmt.op # "spin"
                /\ IF done \/ (stmt.guarded /\ exc.kind = "Exception")
                   THEN /\ ex_req' = [ex_req EXCEPT
                              !.ip = @ + 1,
                              !.output = IF stmt.op = "print"
                                         THEN capture_print(@, stmt.arg) ELSE @,
                              !.globals = IF binds THEN DictSet(@, "result", value)
                                          ELSE IF done /\ stmt.op = "bind"
                                          THEN DictSet(@, stmt.arg, IntV(1))
                                          ELSE @]
                        /\ ex_obs' = [ex_obs EXCEPT
                              !.printed = IF stmt.op = "print"
                                          THEN Append(@, Str(stmt.arg)) ELSE @,
                              !.bound = IF binds THEN value ELSE @]
                        /\ ex_proc' = IF done /\ stmt.op = "setattr"
                                      THEN [ex_proc EXCEPT !.json_marker = stmt.arg]
                                      ELSE ex_proc
                   ELSE /\ ex_req' = [ex_req EXCEPT !.pc = "exit", !.exc = exc]
                        /\ ex_obs' = [ex_obs EXCEPT !.fault = exc]
                        /\ UNCHANGED ex_proc
    /\ ExUnchanged

\* SafeExecutionContext.__exit__: the old handler is put back only when it is
\* truthy; signal.SIG_DFL is 0.
ExitContext ==
    /\ ex_req.pc = "exit"
    /\ ex_proc' = [ex_proc EXCEPT
                      !.alarm = 0,
                      !.handler = IF ex_req.old_handler # "SIG_DFL"
                                  THEN ex_req.old_handler ELSE @]
    /\ ex_req' = [ex_req EXCEPT !.pc = "respond"]
    /\ UNCHANGED ex_obs
    /\ ExUnchanged

TimedOutMessage(timeout_seconds) ==
    <<"Execution timed out after", timeout_seconds, "seconds">>

\* The except clauses of execute_code, in their order.
FaultResponse(exc, timeout_seconds, output) ==
    CASE exc.type = "TimeoutError" ->
            [NoResponse EXCEPT !.kind = "timeout",
                               !.error = TimedOutMessage(timeout_seconds),
                               !.output = output]
      [] exc.kind = "Exception" /\ exc.type # "TimeoutError" ->
            [NoResponse EXCEPT !.kind = "fault", !.error = <<exc.msg>>,
                               !.traceback = TRUE, !.output = output]
      [] OTHER -> [NoResponse EXCEPT !.kind = "raised"]

\* safe_globals.get('result', None)
ResultOf(globals) == IF DictHas(globals, "result") THEN DictGet(globals, "result") ELSE NoneV

\* The end of execute_code: the success response, or an except clause.
Respond ==
    /\ ex_req.pc = "respond"
    /\ LET dumped == JsonDumps(ResultOf(ex_req.globals))
           exc == IF ex_req.exc # NoExc THEN ex_req.exc ELSE dumped.exc
       IN  /\ ex_req' = [ex_req EXCEPT
                 !.pc = "done",
                 !.response =
                     IF exc = NoExc
                     THEN [NoResponse EXCEPT !.kind = "success", !.success = TRUE,
                                             !.result = dumped.json,
                                             !.output = ex_req.output]
                     ELSE FaultResponse(exc, ex_req.timeout_seconds, ex_req.output)]
           /\ ex_obs' = [ex_obs EXCEPT !.fault = exc]
    /\ UNCHANGED ex_proc
    /\ ExUnchanged

\* def timeout_handler(signum, frame): raise TimeoutError(...)
timeout_handler == Raised("Exception", "TimeoutError", "Code execution timed out")

\* One second passes while submitted code runs or while the host does other
\* work; the supervisor's own steps take no time.  When the alarm runs out
\* SIGALRM goes to the installed handler, which raises at the point reached.
Tick ==
    /\ ex_proc.alive
    /\ ex_proc.alarm > 0
    /\ ex_req.pc \in {"exec", "idle", "done"}
    /\ IF ex_proc.alarm > 1
       THEN /\ ex_proc' = [ex_proc EXCEPT !.alarm = @ - 1]
            /\ UNCHANGED <<ex_req, ex_obs>>
       ELSE IF ex_proc.handler = "SIG_DFL"
       THEN /\ ex_proc' = [ex_proc EXCEPT !.alarm = 0, !.alive = FALSE]
            /\ UNCHANGED <<ex_req, ex_obs>>
       ELSE /\ ex_proc' = [ex_proc EXCEPT !.alarm = 0]
            /\ IF ex_req.pc # "exec"
               THEN /\ ex_obs' = [ex_obs EXCEPT !.host_interrupted = TRUE]
                    /\ UNCHANGED ex_req
               ELSE LET running == ex_req.ip <= Len(CodeOf(ex_req))
                        swallowed == running /\ CodeOf(ex_req)[ex_req.ip].guarded
                    IN  /\ ex_obs' = [ex_obs EXCEPT !.expired = running]
                        /\ ex_req' = IF swallowed
                                     THEN [ex_req EXCEPT !.ip = @ + 1]
                                     ELSE [ex_req EXCEPT !.pc = "exit",
                                                         !.exc = timeout_handler]
    /\ ExUnchanged

ExNext == ExecuteCode \/ EnterContext \/ Compile \/ Step \/ ExitContext \/ Respond \/ Tick

\* signal.signal called on a thread other than the main thread of the process.
SignalOffMainThread ==
    Raised("Exception", "ValueError",
           "signal only works in main thread of the main interpreter")

\* execute_code called on another thread of the process, at any point of the
\* main thread's request: __enter__ raises at signal.signal, before
\* signal.alarm and setrlimit, and the except clause of execute_code answers.
ExecuteCodeOnThread ==
    \E request \in {r \in Requests : r.code \in {"ok", "spin"} /\ r.context_vars = <<>>
                                      /\ r.memory_mb = MemoryMb(MaxMemoryMb)} :
        /\ ex_proc.alive
        /\ ex_other' = [pc |-> "done", code |-> request.code,
                        overlaps |-> ex_req.pc \notin {"idle", "done"},
                        response |-> FaultResponse(SignalOffMainThread,
                                                   request.timeout_seconds, <<>>)]
        /\ UNCHANGED <<ex_proc, ex_req, ex_obs>>
        /\ UNCHANGED <<pii_vars, ws_vars, sk_vars, cat_vars, sc_call>>

ThreadsNext == ExNext \/ ExecuteCodeOnThread

(***************************************************************************)
(* Tool registry: the catalog file, its cache, search and lookup.  A       *)
(* catalog is kept as its "categories" dict: category name -> description  *)
(* and "tools" dict, tool name -> descriptor.                              *)
(***************************************************************************)
\* str.lower, on the letters of this model.
str_lower(s) ==
    [i \in 1..Len(s) |->
        IF \E l \in DOMAIN ToUpper : ToUpper[l] = s[i]
        THEN CHOOSE l \in DOMAIN ToUpper : ToUpper[l] = s[i]
        ELSE s[i]]

\* ' '.join(items)
RECURSIVE JoinSpace(_)
JoinSpace(items) ==
    IF Len(items) = 0 THEN <<>>
    ELSE IF Len(items) = 1 THEN items[1]
    ELSE items[1] \o <<" ">> \o JoinSpace(Tail(items))

Tool(mcp_server, description, functions, use_cases) ==
    [mcp_server |-> mcp_server, description |-> description,
     functions |-> functions, use_cases |-> use_cases]

Category(description, tools) == [description |-> description, tools |-> tools]

NameAt == <<"a", "t">>
NameKy == <<"k", "y">>

\* Two catalogs the file may hold.  In CatalogA the name "at" is in both
\* categories.
CatalogA ==
    << <<"sec", Category("security",
            << <<NameAt, Tool("s1", <<"P", "i">>, << <<"n", "o">> >>, << <<"r", "e">> >>)>> >>)>>,
       <<"mem", Category("memory",
            << <<NameAt, Tool("s2", <<"s", "o">>, <<>>, <<>>)>>,
               <<NameKy, Tool("s3", <<>>, << <<"e">>, <<"c">> >>, <<>>)>> >>)>> >>

CatalogB ==
    << <<"sec", Category("security",
            << <<NameKy, Tool("s4", <<"i", "t">>, <<>>, <<>>)>> >>)>> >>

\* {"categories": {}}
EmptyCatalog == <<>>

\* The catalog file: absent, text that is no JSON, the JSON text null, or a
\* catalog.
FileMissing == [kind |-> "missing", v |-> EmptyCatalog]
FileGarbage == [kind |-> "garbage", v |-> EmptyCatalog]
FileNull == [kind |-> "null", v |-> EmptyCatalog]
FileOf(catalog) == [kind |-> "json", v |-> catalog]
CatalogFiles == {FileMissing, FileGarbage, FileNull, FileOf(CatalogA), FileOf(CatalogB)}

\* _catalog_cache: None, or the catalog loaded.
CacheNone == [loaded |-> FALSE, v |-> EmptyCatalog]

\* get_catalog without the cache: the file is read by every call.
get_catalog_uncached(cache, file) ==
    CASE file.kind = "garbage" ->
            [exc |-> "JSONDecodeError", cache |-> cache, catalog |-> EmptyCatalog]
      [] OTHER -> [exc |-> "", cache |-> cache, catalog |-> file.v]

\* get_catalog: the exception or the catalog returned, and the cache afterwards.
\* A cache that is None is read again; json.loads of "null" is None.
get_catalog(cache, file) ==
    IF ~cache.loaded /\ file.kind # "missing"
    THEN CASE file.kind = "garbage" ->
                [exc |-> "JSONDecodeError", cache |-> cache, catalog |-> EmptyCatalog]
           [] file.kind = "null" ->
                [exc |-> "", cache |-> CacheNone, catalog |-> EmptyCatalog]
           [] OTHER ->
                [exc |-> "", cache |-> [loaded |-> TRUE, v |-> file.v], catalog |-> file.v]
    ELSE [exc |-> "", cache |-> cache,
          catalog |-> IF cache.loaded THEN cache.v ELSE EmptyCatalog]

\* The category argument: None, or a string.
NoCategory == [given |-> FALSE, v |-> ""]
CategoryArg(name) == [given |-> TRUE, v |-> name]
\* `if category`: None and '' are false.
Truthy(category) == category.given /\ category.v # ""

\* Only the name of the tool is searched.
SearchableName(tool_name, tool_data) == str_lower(tool_name)

\* f"{tool_name} {description} {' '.join(functions)} {' '.join(use_cases)}".lower()
Searchable(tool_name, tool_data) ==
    str_lower(tool_name \o <<" ">> \o tool_data.description \o <<" ">>
              \o JoinSpace(tool_data.functions) \o <<" ">>
              \o JoinSpace(tool_data.use_cases))

SearchResult(tool_name, cat_name, tool_data) ==
    [name |-> tool_name, category |-> cat_name, mcp_server |-> tool_data.mcp_server,
     description |-> tool_data.description, functions |-> tool_data.functions,
     use_cases |-> tool_data.use_cases]

\* The inner loop of search_catalog, over the tools of one category.
RECURSIVE SearchToolsFrom(_, _, _, _)
SearchToolsFrom(tools, cat_name, query_lower, i) ==
    IF i > Len(tools) THEN <<>>
    ELSE (IF Contains(Searchable(tools[i][1], tools[i][2]), query_lower)
          THEN <<SearchResult(tools[i][1], cat_name, tools[i][2])>> ELSE <<>>)
         \o SearchToolsFrom(tools, cat_name, query_lower, i + 1)

\* The outer loop of search_catalog, over the categories.
RECURSIVE SearchCategoriesFrom(_, _, _, _)
SearchCategoriesFrom(categories, query_lower, category, i) ==
    IF i > Len(categories) THEN <<>>
    ELSE (IF Truthy(category) /\ categories[i][1] # category.v THEN <<>>
          ELSE SearchToolsFrom(categories[i][2].tools, categories[i][1], query_lower, 1))
         \o SearchCategoriesFrom(categories, query_lower, category, i + 1)

search_catalog(catalog, query, category) ==
    SearchCategoriesFrom(catalog, str_lower(query), category, 1)

NoTool == [found |-> FALSE, category |-> "", tool |-> Tool("", <<>>, <<>>, <<>>)]

\* get_tool_from_catalog: the first category that has the name; None otherwise.
RECURSIVE GetToolFrom(_, _, _)
GetToolFrom(categories, tool_name, i) ==
    IF i > Len(categories) THEN NoTool
    ELSE IF DictHas(categories[i][2].tools, tool_name)
         THEN [found |-> TRUE, category |-> categories[i][1],
               tool |-> DictGet(categories[i][2].tools, tool_name)]
    ELSE GetToolFrom(categories, tool_name, i + 1)

get_tool_from_catalog(catalog, tool_name) == GetToolFrom(catalog, tool_name, 1)

\* list_categories: category -> description and tool_count
list_categories(catalog) ==
    [i \in 1..Len(catalog) |->
        <<catalog[i][1], [description |-> catalog[i][2].description,
                          tool_count |-> Len(catalog[i][2].tools)]>>]

\* search_tools with detail_level "summary" keeps four fields of each result.
Summary(results) ==
    [i \in 1..Len(results) |->
        [name |-> results[i].name, category |-> results[i].category,
         description |-> results[i].description, mcp_server |-> results[i].mcp_server]]

Queries == {<<>>, <<"T">>, <<"t", " ", "P">>, <<"e", " ", "c">>, <<" ">>, <<"y">>, <<"n">>}
CategoryArgs == {NoCategory, CategoryArg(""), CategoryArg("sec"), CategoryArg("mem"),
                 CategoryArg("web")}
ToolNames == {NameAt, NameKy, <<"n", "o">>}
DetailLevels == {"summary", "full"}

IdleCatalogCall ==
    [op |-> "none", query |-> <<>>, category |-> NoCategory, tool_name |-> <<>>,
     file |-> "missing", exc |-> "", catalog |-> EmptyCatalog, results |-> <<>>,
     count |-> 0, found |-> NoTool]

CatStart ==
    /\ cat_file = FileMissing
    /\ cat_cache = CacheNone
    /\ cat_call = IdleCatalogCall
    /\ cat_first = [returned |-> FALSE, loaded |-> FALSE, catalog |-> EmptyCatalog,
                    load |-> EmptyCatalog]

CatUnchanged == UNCHANGED <<pii_vars, ws_vars, sk_vars, ex_vars, sc_call>>

\* History: the catalog the first returning get_catalog call returned, and
\* the catalog the file held when a call first found a catalog in it.
Remember(got) ==
    [returned |-> cat_first.returned \/ got.exc = "",
     catalog |-> IF ~cat_first.returned /\ got.exc = "" THEN got.catalog
                 ELSE cat_first.catalog,
     loaded |-> cat_first.loaded \/ cat_file.kind = "json",
     load |-> IF ~cat_first.loaded /\ cat_file.kind = "json" THEN cat_file.v
              ELSE cat_first.load]

CatalogCall(op, got) ==
    [IdleCatalogCall EXCEPT !.op = op, !.file = cat_file.kind, !.exc = got.exc,
                            !.catalog = got.catalog]

\* The tool search_tools
SearchTools ==
    \E query \in Queries, category \in CategoryArgs, detail_level \in DetailLevels :
        LET got == get_catalog(cat_cache, cat_file)
            results == search_catalog(got.catalog, query, category)
        IN  /\ cat_cache' = got.cache
            /\ cat_first' = Remember(got)
            /\ cat_call' = IF got.exc # ""
                           THEN [CatalogCall("search_tools", got) EXCEPT
                                    !.query = query, !.category = category]
                           ELSE [CatalogCall("search_tools", got) EXCEPT
                                    !.query = query, !.category = category,
                                    !.results = IF detail_level = "summary"
                                                THEN Summary(results) ELSE results,
                                    !.count = Len(results)]
            /\ UNCHANGED cat_file
            /\ CatUnchanged

\* The tool get_tool_definition: the category argument is not used.
GetToolDefinition ==
    \E tool_name \in ToolNames, category \in CategoryArgs :
        LET got == get_catalog(cat_cache, cat_file)
        IN  /\ cat_cache' = got.cache
            /\ cat_first' = Remember(got)
            /\ cat_call' = [CatalogCall("get_tool_definition", got) EXCEPT
                               !.tool_name = tool_name, !.category = category,
                               !.found = IF got.exc # "" THEN NoTool
                                         ELSE get_tool_from_catalog(got.catalog, tool_name)]
            /\ UNCHANGED cat_file
            /\ CatUnchanged

\* The tool list_tool_categories (list_categories, then get_catalog once more)
ListToolCategories ==
    LET got == get_catalog(cat_cache, cat_file)
    IN  /\ cat_cache' = got.cache
        /\ cat_first' = Remember(got)
        /\ cat_call' = [CatalogCall("list_tool_categories", got) EXCEPT
                           !.count = Len(list_categories(got.catalog))]
        /\ UNCHANGED cat_file
        /\ CatUnchanged

\* Outside the server: the catalog file is written, replaced or removed.
ReplaceCatalogFile ==
    \E file \in CatalogFiles :
        /\ file # cat_file
        /\ cat_file' = file
        /\ UNCHANGED <<cat_cache, cat_call, cat_first>>
        /\ CatUnchanged

CatNext == SearchTools \/ GetToolDefinition \/ ListToolCategories \/ ReplaceCatalogFile

(***************************************************************************)
(* Dangerous-construct scanner: check_for_dangerous_code.  server.py does  *)
(* not hold the function; its tests import it and BLOCKED_IMPORTS from     *)
(* there.  It is written here from section 4.7 of the specification and    *)
(* the names its tests use.  Code is a sequence of lines, a line a         *)
(* sequence of lexemes.                                                    *)
(***************************************************************************)
BLOCKED_IMPORTS ==
    {"os", "subprocess", "socket", "sys", "urllib", "requests", "http", "ftplib",
     "smtplib", "telnetlib", "ssl", "builtins", "__builtins__", "globals", "locals",
     "vars", "dir", "ctypes", "multiprocessing", "threading"}

DANGEROUS_ATTRIBUTES ==
    {"__class__", "__bases__", "__subclasses__", "__globals__", "__mro__", "__code__"}

Warning(kind, name) == [kind |-> kind, name |-> name]

\* One pass over the lexemes of a line.  mode is what the lexemes read so far
\* make of the next one: "start" (nothing read), "modules" (after a leading
\* import), "module" (after a leading from), "call" (after __import__ and
\* its opening bracket and quote), "rest" (anything else).
RECURSIVE ScanLine(_, _, _)
ScanLine(line, i, mode) ==
    IF i > Len(line) THEN <<>>
    ELSE LET w == line[i]
             attribute == IF w \in DANGEROUS_ATTRIBUTES
                          THEN <<Warning("attribute", w)>> ELSE <<>>
             blocked == IF w \in BLOCKED_IMPORTS
                        THEN <<Warning("import", w)>> ELSE <<>>
         IN  CASE mode = "start" /\ w = "import" -> ScanLine(line, i + 1, "modules")
               [] mode = "start" /\ w = "from" -> ScanLine(line, i + 1, "module")
               [] w = "__import__" -> ScanLine(line, i + 1, "call")
               [] mode = "call" /\ w \in {"(", "'"} -> ScanLine(line, i + 1, "call")
               [] mode = "modules" /\ w = "," -> ScanLine(line, i + 1, "modules")
               [] mode = "modules" ->
                      blocked \o attribute \o ScanLine(line, i + 1, "modules")
               [] mode \in {"module", "call"} ->
                      blocked \o attribute \o ScanLine(line, i + 1, "rest")
               [] OTHER -> attribute \o ScanLine(line, i + 1, "rest")

RECURSIVE ScanFrom(_, _)
ScanFrom(code, l) ==
    IF l > Len(code) THEN <<>>
    ELSE ScanLine(code[l], 1, "start") \o ScanFrom(code, l + 1)

\* A scan that gives up at the first finding.
check_for_dangerous_code_first(code) ==
    LET warnings == ScanFrom(code, 1)
    IN  IF warnings = <<>> THEN <<>> ELSE <<warnings[1]>>

\* check_for_dangerous_code(code): the warnings, in the order of the code.
check_for_dangerous_code(code) == ScanFrom(code, 1)

\* The code the scanner is called with: up to MaxLines lines.
MaxLines == 2

ScanLines ==
    {<<"import", "os">>,
     <<"import", "os", ",", "sys">>,
     <<"import", "json">>,
     <<"import", "subprocess">>,
     <<"from", "os", "import", "path">>,
     <<"from", "datetime", "import", "datetime">>,
     <<"x", "=", "__import__", "(", "'", "os", "'", ")">>,
     <<"x", "=", "''", ".", "__class__", ".", "__bases__">>,
     <<"x", "=", "f", ".", "__code__">>,
     <<"os", "=", "sum", "(", "sys", ")">>,
     <<"result", "=", "sum", "(", "data", ")">>}

ScanCodes == UNION {[1..n -> ScanLines] : n \in 0..MaxLines}

ScStart == sc_call = [op |-> "none", code |-> <<>>, warnings |-> <<>>]

CheckForDangerousCode ==
    \E code \in ScanCodes :
        /\ sc_call' = [op |-> "check_for_dangerous_code", code |-> code,
                       warnings |-> check_for_dangerous_code(code)]
        /\ UNCHANGED <<pii_vars, ws_vars, sk_vars, ex_vars, cat_vars>>

ScNext == CheckForDangerousCode

(***************************************************************************)
(* Specifications                                                          *)
(***************************************************************************)
Init == PiiStart /\ WsStart /\ SkStart /\ ExStart /\ CatStart /\ ScStart

SpecPii == Init /\ [][PiiNext]_vars
SpecWs == Init /\ [][WsNext]_vars
SpecSkill == Init /\ [][SkNext]_vars
SpecExec == Init /\ [][ExNext]_vars
SpecCatalog == Init /\ [][CatNext]_vars
SpecScan == Init /\ [][ScNext]_vars
SpecThreads == Init /\ [][ThreadsNext]_vars

(***************************************************************************)
(* Claims about the PII engine                                             *)
(***************************************************************************)
IsTokenizeCall == pii_call.op \in {"tokenize_pii", "sanitize_pii"}

\* C3: for every text t, with (s, m) = tokenize_pii(t), detokenize_pii(s, m) = t.
C3_RoundTrip ==
    IsTokenizeCall => detokenize_pii(pii_call.out, pii_call.tokens) = pii_call.text

\* C4: within one tokenize_pii call every matched substring is replaced by its
\* token [<CATEGORY>_<digest>]: the map holds that token for it, the map has one
\* entry per distinct matched substring, every token of the map occurs in the
\* sanitized text, and no matched substring remains in the sanitized text.
C4_OneTokenPerMatch ==
    IsTokenizeCall =>
        LET matched == MatchedTable[pii_call.text]
        IN  /\ \A m \in matched :
                  /\ DictHas(pii_call.tokens, TokenId(m[1], m[2]))
                  /\ DictGet(pii_call.tokens, TokenId(m[1], m[2])) = m[2]
            /\ Len(pii_call.tokens) = Cardinality({m[2] : m \in matched})
            /\ \A token \in DictKeys(pii_call.tokens) : Contains(pii_call.out, token)
            /\ \A m \in matched : ~Contains(pii_call.out, m[2])

\* C5: every token -> original pair an earlier tokenize_pii call returned is still
\* in the token store, whatever was called since.
C5_PairsStayInStore ==
    \A pair \in DictItems(pii_earlier.tokens) : pair \in DictItems(pii_tokens)

\* C22: for every text, sanitize_pii reports pii_found equal to the number of
\* distinct tokens tokenization produced and pii_types equal to the set of the
\* categories (EMAIL, PHONE, SSN, CREDIT_CARD, IP_ADDRESS, API_KEY) of those
\* tokens.
C22_ReportMatchesTokens ==
    pii_call.op = "sanitize_pii" =>
        LET matched == MatchedTable[pii_call.text]
        IN  /\ pii_call.found = Cardinality({TokenId(m[1], m[2]) : m \in matched})
            /\ pii_call.types = {m[1] : m \in matched}

\* C27: a token id maps to exactly one original substring: once the token
\* store holds t -> s no later tokenize_pii call, on any text, binds t to
\* another substring, and two different matched substrings of one category
\* never receive the same token.
C27_TokenBindsOnce ==
    [][/\ \A pair \in DictItems(pii_tokens) :
              DictHas(pii_tokens', pair[1]) /\ DictGet(pii_tokens', pair[1]) = pair[2]
       /\ IsTokenizeCall' =>
              \A m, n \in MatchedTable[pii_call'.text] :
                  (m[1] = n[1] /\ m[2] # n[2]) => TokenId(m[1], m[2]) # TokenId(n[1], n[2])]_vars

\* The texts of the model in which no pattern of PII_PATTERNS finds a match.
UnmatchedTexts ==
    {t \in Texts :
        \A k \in 1..Len(PII_PATTERNS) : FindIter(PII_PATTERNS[k].pattern, t, 1) = <<>>}

\* C24: if no PII pattern matches the text, tokenize_pii returns the text
\* unchanged with an empty map and leaves the token store as it was.
C24_NoMatchNoChange ==
    [][(IsTokenizeCall' /\ pii_call'.text \in UnmatchedTexts) =>
           /\ pii_call'.out = pii_call'.text
           /\ pii_call'.tokens = <<>>
           /\ pii_tokens' = pii_tokens]_vars

\* C24 witness: tokenize_pii has returned a text of several characters that
\* no pattern matches while the token store holds the pairs of earlier calls.
C24_UnmatchedAfterMatches ==
    /\ IsTokenizeCall
    /\ pii_call.text \in UnmatchedTexts
    /\ Len(pii_call.text) > 1
    /\ pii_call.out = pii_call.text
    /\ Len(pii_tokens) >= 2

(***************************************************************************)
(* Claims about the workspace gateway                                      *)
(***************************************************************************)
\* C2: for read, write, list and delete and every path argument, the operation
\* fails with PermissionError when the resolved target is neither the workspace
\* root nor a descendant of it, and the containment check lets it proceed when
\* the target is the root or a descendant.
C2_Containment ==
    ws_op.op # "none" =>
        (IsRootOrDescendant(WORKSPACE_DIR, ws_op.target)
            <=> ws_op.outcome # "PermissionError")

(***************************************************************************)
(* Claims about the skill store                                            *)
(***************************************************************************)
\* C10: a save whose name does not match ^[A-Za-z_][A-Za-z0-9_]*$, through the
\* save_skill tool or through the save_skill capability of the sandbox, fails
\* with an error and creates or modifies no file.
C10_InvalidNameRejected ==
    (/\ sk_save.entry \in {"save_skill", "sandbox"}
     /\ ~ReMatch(SkillNamePattern, sk_save.name)) =>
        /\ ~sk_save.wrote
        /\ sk_save.pc = "done" => sk_save.response \notin {"none", "saved"}

\* C11: after any sequence of successful saves, load_skill(n) of a saved
\* name n finds both artifacts and returns exactly the code of the most
\* recent save of n, with the description and code_hash of that save.
C11_LatestSaveLoads ==
    (sk_save.entry = "load_skill" /\ sk_save.name \in DOMAIN sk_saved) =>
        /\ sk_save.response = "loaded"
        /\ sk_save.result.code = sk_saved[sk_save.name].code
        /\ sk_save.result.metadata.description = sk_saved[sk_save.name].description
        /\ sk_save.result.metadata.code_hash = Md5Hex(sk_saved[sk_save.name].code)

\* The metadata records of the skill store that parse.
ParsedRecords(fs) == {f \in GlobJson(fs) : LoadJson(fs, f).exc = ""}

\* C20: list_skills never raises; it returns the metadata of every record of
\* the skill store that parses and passes over the records that do not, and
\* count is the number of records returned.
C20_ListsEveryParsedRecord ==
    sk_save.entry = "list_skills" =>
        /\ sk_save.response = "listed"
        /\ sk_save.result.count = Len(sk_save.result.skills)
        /\ sk_save.result.count = Cardinality(ParsedRecords(sk_fs))
        /\ \A f \in ParsedRecords(sk_fs) :
              \E i \in 1..Len(sk_save.result.skills) :
                  sk_save.result.skills[i] = sk_fs[f].content.v

\* C20 witness: list_skills returned one record of a store that holds two,
\* the other one being damaged.
C20_BadRecordSkipped ==
    /\ sk_save.entry = "list_skills"
    /\ Cardinality(GlobJson(sk_fs)) = 2
    /\ Cardinality(ParsedRecords(sk_fs)) = 1
    /\ sk_save.result.count = 1

\* C21: load_skill(name) never raises: in every state of the skills
\* directory it answers with the skill when the code file of name exists and
\* with an error response otherwise, also when the metadata file of the skill
\* is missing or does not parse.
C21_LoadNeverRaises ==
    sk_save.entry = "load_skill" =>
        /\ sk_save.response \in {"loaded", "error"}
        /\ sk_save.response = "loaded"
              <=> PathExists(sk_fs, NameTable[sk_save.name].skill_path)

\* C29: in every state of the skill store, between the two writes of a save
\* included, whenever both files of a skill exist the code_hash of the
\* metadata is the digest of the stored code, so that load_skill never
\* returns the code of one save with the metadata of another.
C29_HashMatchesCode ==
    \A name \in SkillNames :
        LET skill_path == NameTable[name].skill_path
            metadata_path == NameTable[name].metadata_path
        IN  (/\ PathIsFile(sk_fs, skill_path)
             /\ PathIsFile(sk_fs, metadata_path)
             /\ LoadJson(sk_fs, metadata_path).exc = "") =>
                LoadJson(sk_fs, metadata_path).value.code_hash
                    = Md5Hex(sk_fs[skill_path].content.v)

(***************************************************************************)
(* Claims about the sandbox supervisor                                     *)
(***************************************************************************)
ExecDone == ex_req.pc = "done"

RefsDisallowed(code) ==
    \E i \in 1..Len(code) :
        \/ code[i].op = "import" /\ code[i].arg \in DisallowedModules
        \/ code[i].op = "call" /\ code[i].arg \in DisallowedCalls
        \/ code[i].op = "getattr" /\ code[i].arg \in ReflectiveAttributes

\* C1: every code that references a disallowed capability (import of an
\* OS/process/socket module, open/eval/exec/compile/__import__/input, or
\* reflective __class__/__bases__/__subclasses__/__globals__ access) gets a
\* response with success=false.
C1_DisallowedFails ==
    (ExecDone /\ RefsDisallowed(CodeOf(ex_req))) =>
        ex_req.response.kind \in {"fault", "timeout"}

\* The code raises nothing of its own, loops nowhere, and allocates no more
\* than the request's memory_mb.
RunsToEnd(code, memory_mb) ==
    /\ Compiles(code)
    /\ \A i \in 1..Len(code) :
          /\ code[i].op \notin {"raise", "spin"}
          /\ code[i].op = "alloc" => (~memory_mb.c_long \/ code[i].arg <= memory_mb.mb)

\* The value a JSON result denotes.
Denoted(json) ==
    CASE json.j = "number" -> IntV(json.v)
      [] json.j = "string" -> StrV(json.v)
      [] OTHER -> [t |-> "unbound", v |-> ""]

\* C6: code that uses only allowlisted capabilities and finishes within its
\* budget gets success=true, result equal to the value the code bound to
\* `result` (null if it bound none) and output equal to the lines it printed,
\* one entry per print call, in order.
C6_SuccessReport ==
    (/\ ExecDone
     /\ ~RefsDisallowed(CodeOf(ex_req))
     /\ RunsToEnd(CodeOf(ex_req), ex_req.memory_mb)
     /\ ex_obs.fault.type # "TimeoutError") =>
        /\ ex_req.response.kind = "success"
        /\ Denoted(ex_req.response.result).t = ex_obs.bound.t
        /\ Denoted(ex_req.response.result).v = ex_obs.bound.v
        /\ ex_req.response.output = ex_obs.printed

\* C7: for every request, whatever timeout_seconds is and however the request
\* ends, an alarm of timeout_seconds is armed before the code is compiled, no
\* alarm is pending once execute_code has returned, and no timeout signal
\* fires in the host's later work.
C7_AlarmScoped ==
    /\ ex_req.pc = "compile" => ex_proc.alarm = ex_req.timeout_seconds
    /\ ExecDone => ex_proc.alarm = 0
    /\ ~ex_obs.host_interrupted

\* C8: when the code is still running as timeout_seconds run out, the response
\* is success=false with 'Execution timed out after <timeout_seconds> seconds'
\* and the output captured so far, whatever exception handling the code has.
C8_TimeoutReported ==
    (ExecDone /\ ex_obs.expired) =>
        /\ ex_req.response.kind = "timeout"
        /\ ex_req.response.error = TimedOutMessage(ex_req.timeout_seconds)
        /\ ex_req.response.output = ex_obs.printed

\* C9: every fault other than a timeout, raised while the namespace is built
\* or the code is compiled or interpreted, gives success=false with the error
\* message, a trace and the output captured before the fault; execute_code
\* never raises to its caller.
C9_FaultReported ==
    ExecDone =>
        /\ ex_req.response.kind # "raised"
        /\ (ex_obs.fault # NoExc /\ ex_obs.fault.type # "TimeoutError") =>
              /\ ex_req.response.kind = "fault"
              /\ ex_req.response.traceback
              /\ ex_req.response.error = <<ex_obs.fault.msg>>
              /\ ex_req.response.output = ex_obs.printed

\* C12: no name binding and no mutation of a utility module made by an earlier
\* request is observable by a later one: a request whose code only reads the
\* global g, or only reads json.marker, defines neither, so it never succeeds.
C12_FreshNamespace ==
    (ExecDone /\ ex_req.code \in {"readg", "readmarker"}) =>
        ex_req.response.kind # "success"

ImportsSafeModule(code) ==
    /\ \E i \in 1..Len(code) : code[i].op = "import"
    /\ \A i \in 1..Len(code) : code[i].op = "import" => code[i].arg \in SafeModules

\* C13: code that executes an import statement for an allowlisted utility
\* module, raises nothing of its own and is not timed out gets success=true.
C13_SafeImportRuns ==
    (/\ ExecDone
     /\ ImportsSafeModule(CodeOf(ex_req))
     /\ RunsToEnd(CodeOf(ex_req), ex_req.memory_mb)
     /\ ex_obs.fault.type \notin {"TimeoutError", "OverflowError"}) =>
        ex_req.response.kind = "success"

\* The namespace is built and the code has not run yet.
NamespaceBuilt == ex_req.pc \in {"enter", "compile"}

\* The binding of a name nobody replaced.
ReservedBinding(k) ==
    [t |-> "reserved", v |-> IF k = "print" THEN "capture_print" ELSE k]

\* Two values are the same value: the same type and the same content.
SameValue(a, b) == a.t = b.t /\ a.v = b.v

NamespaceNames == DictKeys(ReservedFrom(1)) \cup {"print"} \cup DictKeys(ex_req.context_vars)

\* C14 (as stated): every name of context_vars, reserved names such as print
\* and read_file included, is bound to the caller's value in the namespace
\* the code executes in; every other name keeps its reserved binding.
C14_ContextVarsShadowAny ==
    NamespaceBuilt =>
        \A k \in NamespaceNames :
            SameValue(DictGet(ex_req.globals, k),
                      IF DictHas(ex_req.context_vars, k)
                      THEN DictGet(ex_req.context_vars, k)
                      ELSE ReservedBinding(k))

\* C14 (amended): every name of context_vars other than print is bound to the
\* caller's value in the namespace the code executes in; print is bound to the
\* capturing print whatever context_vars holds; every other name keeps its
\* reserved binding.
C14_ContextVarsShadowButPrint ==
    NamespaceBuilt =>
        \A k \in NamespaceNames :
            SameValue(DictGet(ex_req.globals, k),
                      IF k # "print" /\ DictHas(ex_req.context_vars, k)
                      THEN DictGet(ex_req.context_vars, k)
                      ELSE ReservedBinding(k))

\* C14 witness: a request whose context_vars name read_file and print is about
\* to run with read_file bound to the caller's value.
C14_ReservedShadowed ==
    /\ ex_req.pc = "compile"
    /\ DictHas(ex_req.context_vars, "read_file")
    /\ DictHas(ex_req.context_vars, "print")
    /\ SameValue(DictGet(ex_req.globals, "read_file"), IntV(5))

\* C25: for any sequence of requests with any memory_mb values, the
\* address-space limit in force while a request's code runs is that request's
\* own quota (or no new limit, the request not failing for it, when the
\* platform rejects the cap), and once the request has returned the host
\* process is under no limit a request applied.
C25_QuotaScoped ==
    /\ ex_req.pc = "exec" => ex_proc.rlimit \in {ex_req.memory_mb.mb, Unlimited}
    /\ ExecDone => ex_proc.rlimit = Unlimited

\* C28: when a SafeExecutionContext exits, on every exit path, the SIGALRM
\* handler of the process is again the handler that was installed before the
\* context was entered, whatever that handler was, the default disposition
\* included: timeout_handler does not stay installed.
C28_HandlerRestored ==
    [][(ex_req.pc = "exit" /\ ex_req'.pc = "respond") =>
           /\ ex_proc'.handler = ex_req.old_handler
           /\ ex_req.old_handler # "timeout_handler" => ex_proc'.handler # "timeout_handler"]_vars

\* C26: when two execute_code requests overlap in time each is governed by
\* its own deadline: each runs its code until it ends or its own limit
\* expires, the alarm of one is not armed, cleared or replaced by the other,
\* and a timeout is reported only to the request whose own limit expired.
C26_OwnDeadlines ==
    (ex_other.pc = "done" /\ ex_other.overlaps) =>
        /\ ex_other.response.kind \in {"success", "timeout"}
        /\ ex_req.pc = "compile" => ex_proc.alarm = ex_req.timeout_seconds

(***************************************************************************)
(* Claims about the workspace tools and the workspace functions            *)
(***************************************************************************)
\* C18: a workspace tool never raises; a call whose path lies outside the
\* workspace, whose target is missing or that meets an I/O fault returns
\* {success: false, error}, and every other call returns {success: true}.
C18_ToolsReportFailure ==
    ws_op.tool =>
        /\ ws_op.response.kind = "json"
        /\ ws_op.response.success <=> ws_op.outcome = "ok"
        /\ ws_op.response.success => IsRootOrDescendant(WORKSPACE_DIR, ws_op.target)

Descendant(path) == IsRootOrDescendant(WORKSPACE_DIR, path) /\ path # WORKSPACE_DIR

\* No component above path is a regular file, and path is no directory.
Writable(fs, path) ==
    /\ \A q \in Prefixes(path) \ {path} : ~PathIsFile(fs, q)
    /\ ~PathIsDir(fs, path)

RootRelative(path) == SubSeq(path, Len(WORKSPACE_DIR) + 1, Len(path))

\* C19: write_file(p, c) of a descendant path p succeeds, parents missing or
\* not; from then to the next write or delete of p, read_file(p) returns
\* exactly c and list_files() contains p; after delete_file(p), read_file(p)
\* and delete_file(p) fail with FileNotFoundError and list_files() does not
\* contain p.
C19_WriteReadDelete ==
    /\ (ws_op.op = "write" /\ Descendant(ws_op.target) /\ ws_op.outcome # "ok") =>
            ~Writable(ws_fs, ws_op.target)
    /\ (ws_op.op = "read" /\ Descendant(ws_op.target)
            /\ ws_op.target \in DOMAIN ws_hist.written) =>
            ws_op.outcome = "ok" /\ ws_op.value = ws_hist.written[ws_op.target]
    /\ (ws_op.op = "list" /\ ws_op.target = WORKSPACE_DIR) =>
            /\ ws_op.outcome = "ok"
            /\ \A q \in DOMAIN ws_hist.written :
                  Descendant(q) => RootRelative(q) \in ws_op.value
            /\ (ws_hist.deleted.some /\ Descendant(ws_hist.deleted.path)) =>
                  RootRelative(ws_hist.deleted.path) \notin ws_op.value
    /\ (ws_op.op \in {"read", "delete"} /\ ws_op.outcome # "ok"
            /\ ws_hist.deleted = SomePath(ws_op.target)
            /\ ~PathIsDir(ws_fs, ws_op.target)) =>
            ws_op.outcome = "FileNotFoundError"
    /\ (ws_op.op = "read" /\ ws_hist.deleted = SomePath(ws_op.target)) =>
            ws_op.outcome # "ok"

\* C30: a workspace operation that fails with PermissionError or
\* FileNotFoundError leaves the file tree as it was: a rejected write creates
\* no file and no directory, a rejected delete removes nothing, and nothing
\* is written or removed at some other path inside the workspace instead.
C30_FailureChangesNothing ==
    [][ws_op'.outcome \in {"PermissionError", "FileNotFoundError"} => ws_fs' = ws_fs]_vars

\* C30 witness: a write to a path outside the workspace has been rejected,
\* the path lying in a directory that does not exist, while the workspace
\* holds a file written earlier.
C30_WriteRejected ==
    /\ ws_op.op = "write"
    /\ ws_op.outcome = "PermissionError"
    /\ ~IsRootOrDescendant(WORKSPACE_DIR, ws_op.target)
    /\ ~PathExists(ws_fs, SubSeq(ws_op.target, 1, Len(ws_op.target) - 1))
    /\ \E q \in DOMAIN ws_hist.written : PathIsFile(ws_fs, q)

(***************************************************************************)
(* Claims about the tool registry                                          *)
(***************************************************************************)
CatalogCalled == cat_call.op # "none"

\* The tools of a catalog, as <<category index, tool index>>, and their order
\* of iteration.
Entries(catalog) ==
    UNION {{<<c, t>> : t \in 1..Len(catalog[c][2].tools)} : c \in 1..Len(catalog)}
Before(e, o) == e[1] < o[1] \/ (e[1] = o[1] /\ e[2] < o[2])
EntryCategory(catalog, e) == catalog[e[1]][1]
EntryName(catalog, e) == catalog[e[1]][2].tools[e[2]][1]
EntryTool(catalog, e) == catalog[e[1]][2].tools[e[2]][2]

InScope(category, cat_name) == ~Truthy(category) \/ cat_name = category.v

SeqRange(items) == {items[i] : i \in 1..Len(items)}

\* Some one field of the tool contains the query, whatever the case.
FieldMatches(tool_name, tool, query) ==
    \E field \in {tool_name, tool.description} \cup SeqRange(tool.functions)
                 \cup SeqRange(tool.use_cases) :
        Contains(str_lower(field), str_lower(query))

\* The name, the description, the function names joined by spaces and the
\* use cases joined by spaces, joined by spaces, contain the query, whatever
\* the case.
TextMatches(tool_name, tool, query) ==
    Contains(str_lower(JoinSpace(<<tool_name, tool.description,
                                   JoinSpace(tool.functions),
                                   JoinSpace(tool.use_cases)>>)),
             str_lower(query))

\* results lists, in the catalog's order of iteration, exactly the tools in
\* scope that Match accepts.
ListsExactly(results, catalog, category, query, Match(_, _, _)) ==
    LET E == {e \in Entries(catalog) :
                 /\ InScope(category, EntryCategory(catalog, e))
                 /\ Match(EntryName(catalog, e), EntryTool(catalog, e), query)}
    IN  /\ Len(results) = Cardinality(E)
        /\ \E pos \in [1..Len(results) -> E] :
              /\ \A i, j \in 1..Len(results) : i < j => Before(pos[i], pos[j])
              /\ \A i \in 1..Len(results) :
                    /\ results[i].name = EntryName(catalog, pos[i])
                    /\ results[i].category = EntryCategory(catalog, pos[i])
                    /\ results[i].description = EntryTool(catalog, pos[i]).description
                    /\ results[i].mcp_server = EntryTool(catalog, pos[i]).mcp_server

Searched == cat_call.op = "search_tools" /\ cat_call.exc = ""

\* C15 (as stated): search_catalog(query, category) returns, in catalog
\* iteration order, exactly the tools (of the category when one is given)
\* whose name, description, one function name or one use-case string contains
\* the query case-insensitively.
C15_SearchByField ==
    Searched =>
        ListsExactly(cat_call.results, cat_call.catalog, cat_call.category,
                     cat_call.query, FieldMatches)

\* C15 (amended): search_catalog(query, category) returns, in catalog
\* iteration order, exactly the tools (of the category when a non-empty one
\* is given) whose name, description, function names and use-case strings,
\* joined by single spaces and lowercased, contain the lowercased query.
C15_SearchByJoinedText ==
    Searched =>
        ListsExactly(cat_call.results, cat_call.catalog, cat_call.category,
                     cat_call.query, TextMatches)

\* C15 witness: a search restricted to a category found a tool through a
\* query that no single field contains.
C15_FoundAcrossFields ==
    /\ Searched
    /\ cat_call.query = <<"t", " ", "P">>
    /\ cat_call.category = CategoryArg("sec")
    /\ Len(cat_call.results) = 1
    /\ cat_call.results[1].name = NameAt

C17_FirstInGivenCategory ==
    (cat_call.op = "get_tool_definition" /\ cat_call.exc = "") =>
        LET catalog == cat_call.catalog
            E == {e \in Entries(catalog) :
                     /\ InScope(cat_call.category, EntryCategory(catalog, e))
                     /\ EntryName(catalog, e) = cat_call.tool_name}
        IN  IF E = {} THEN ~cat_call.found.found
            ELSE LET first == CHOOSE e \in E : \A o \in E : o = e \/ Before(e, o)
                 IN  /\ cat_call.found.found
                     /\ cat_call.found.category = EntryCategory(catalog, first)
                     /\ cat_call.found.tool = EntryTool(catalog, first)

(***************************************************************************)
(* Claims about the dangerous-construct scanner                            *)
(***************************************************************************)
\* Lexeme i of the line names a module in an import-like statement: after a
\* leading import, right after a leading from, or as the quoted argument of
\* __import__.
NamesModule(line, i) ==
    \/ line[1] = "import" /\ i > 1
    \/ line[1] = "from" /\ i = 2
    \/ i > 3 /\ line[i - 3] = "__import__" /\ line[i - 2] = "(" /\ line[i - 1] = "'"

\* The findings the code holds: <<line, lexeme>> positions with their warning.
Findings(code) ==
    {f \in UNION {{<<l, i>> : i \in 1..Len(code[l])} : l \in 1..Len(code)} :
        LET line == code[f[1]]
        IN  \/ line[f[2]] \in BLOCKED_IMPORTS /\ NamesModule(line, f[2])
            \/ line[f[2]] \in DANGEROUS_ATTRIBUTES}

FindingWarning(code, f) ==
    LET w == code[f[1]][f[2]]
    IN  Warning(IF w \in DANGEROUS_ATTRIBUTES THEN "attribute" ELSE "import", w)

\* C23: check_for_dangerous_code(code) returns one warning for each
\* deny-listed module named in an import-like statement (import X, from X
\* import ..., __import__) and one for each deny-listed reflective attribute
\* name occurring in the code, in the order of the code, and no warning for
\* code that holds none of them (imports of json or datetime, say).
C23_OneWarningPerFinding ==
    sc_call.op = "check_for_dangerous_code" =>
        LET found == Findings(sc_call.code)
            warnings == sc_call.warnings
        IN  /\ Len(warnings) = Cardinality(found)
            /\ \A f \in found :
                  \E n \in 1..Len(warnings) :
                      /\ warnings[n] = FindingWarning(sc_call.code, f)
                      /\ n = 1 + Cardinality({g \in found :
                                 g[1] < f[1] \/ (g[1] = f[1] /\ g[2] < f[2])})

\* C23 witness: a scan of two lines returned three warnings, an import of
\* a deny-listed module first.
C23_SeveralWarnings ==
    /\ sc_call.op = "check_for_dangerous_code"
    /\ Len(sc_call.code) = 2
    /\ Len(sc_call.warnings) = 3
    /\ sc_call.warnings[1].kind = "import"

====
